---- MODULE Spec2Model ----
(***************************************************************************)
(* Model of the scripture tools:                                           *)
(*   backend/scripts/language_detector.py: the script classifier           *)
(*     (detect_language), its reference tables (ARAMAIC_PASSAGES,          *)
(*     ARAMAIC_VOCABULARY) and the passage lookup (is_aramaic_passage);    *)
(*   extract_hebrew_from_bhs.py: the line scanner parse_verses_from_text;  *)
(*   verify_ocr_accuracy.py: find_verse_in_ocr with normalize_text and     *)
(*     calculate_similarity, and verify_ocr_accuracy (path check, page     *)
(*     loop, verse loop and average);                                      *)
(*   extract_scriptures_ocr.py, extract_hebrew_ocr.py: process_pdf (path   *)
(*     check and page loop), preprocess_image and test_ocr_configs.        *)
(*                                                                         *)
(* Python values are records [type, v]: a str is the sequence of its       *)
(* codepoints, an int is a one-element sequence, None is empty.  A float   *)
(* is kept as the exact fraction [num, den] the code divides.  The str     *)
(* arguments of the scanner and the verifier are plain codepoint           *)
(* sequences.                                                              *)
(***************************************************************************)
EXTENDS Integers, Sequences, FiniteSets, TLC

VARIABLES
    text,        \* argument text of the call
    book,        \* argument book (hint)
    chapter,     \* argument chapter (hint)
    verse,       \* argument verse (hint)
    result,      \* what the call returned (or that it raised)
    pc,          \* "ready" before the call, "done" after it
    passages,    \* module global ARAMAIC_PASSAGES
    vocabulary,  \* module global ARAMAIC_VOCABULARY, in its iteration order
    history,     \* the calls of a session so far: arguments and result
    outcome,     \* what a direct call of is_aramaic_passage returned
    lines,            \* parse_verses_from_text: the lines scanned so far
    current_book,     \* parse_verses_from_text: current_book
    current_chapter,  \* parse_verses_from_text: current_chapter
    current_verse,    \* parse_verses_from_text: current_verse
    verses,           \* parse_verses_from_text: the dict verses
    attributed,       \* the (key, text) stored so far, in document order
    ocr_text,         \* find_verse_in_ocr: argument ocr_text
    verified_text,    \* find_verse_in_ocr: argument verified_text
    script_pattern,   \* find_verse_in_ocr: argument pattern
    verdict,          \* find_verse_in_ocr: the returned tuple
    verified_data,    \* verify_ocr_accuracy: the items of verified_data
    report,           \* the verse fields of its dict results
    verse_loop,       \* "checking" the verses, or "returned"
    running,          \* the function whose page loop runs
    pdf_exists,       \* os.path.exists(pdf_path)
    start_page,       \* argument start_page
    num_pages,        \* argument num_pages (sample_pages)
    total_pages,      \* len(doc)
    pages_done,       \* the pages the loop has taken so far
    results,          \* the dict results of that function
    loop_state,       \* "called", "looping", "finished", "returned"
                      \* (no document) or "raised" out of the loop
    config_results,   \* test_ocr_configs: the dict results
    best_hebrew,      \* test_ocr_configs: the item best_hebrew
    best_greek,       \* test_ocr_configs: the item best_greek
    configs_state,    \* "testing", "selected", or "raised" out of it
    img,              \* preprocess_image: argument img
    config,           \* preprocess_image: argument config
    img_processed     \* preprocess_image: the returned image

detectorVars ==
    <<text, book, chapter, verse, result, pc, passages, vocabulary, history,
      outcome>>
parserVars ==
    <<lines, current_book, current_chapter, current_verse, verses,
      attributed>>
verifierVars ==
    <<ocr_text, verified_text, script_pattern, verdict, verified_data, report,
      verse_loop>>
toolVars ==
    <<config_results, best_hebrew, best_greek, configs_state, img, config,
      img_processed>>
pageVars ==
    <<running, pdf_exists, start_page, num_pages, total_pages, pages_done,
      results, loop_state, toolVars>>
vars == <<detectorVars, parserVars, verifierVars, pageVars>>

----------------------------------------------------------------------------
(* Bounds of the explored inputs. *)

\* texts are concatenations of at most MaxChunks sample chunks
MaxChunks == 2
\* hints of the passage lookup: chapters 0..MaxChapter, verses 0..MaxVerse
MaxChapter == 31
MaxVerse == 47
\* chapter-range entries: chapters 1..MaxRangeChapter, verses 1..MaxRangeVerse
MaxRangeChapter == 3
MaxRangeVerse == 3
\* calls of one session
MaxCalls == 3
\* pages of one document
MaxPages == 3
\* lines of one scanned text
MaxLines == 4

----------------------------------------------------------------------------
(* Python values. *)

PyStr(s) == [type |-> "str", v |-> s]
PyInt(n) == [type |-> "int", v |-> <<n>>]
None == [type |-> "NoneType", v |-> <<>>]

\* bool(x): None is false, an int is false iff 0, a str is false iff empty
Truthy(x) ==
    CASE x.type = "NoneType" -> FALSE
      [] x.type = "int" -> x.v[1] # 0
      [] x.type = "str" -> Len(x.v) > 0

\* floats, as the exact fraction the code computes
Float(n, d) == [num |-> n, den |-> d]
FloatGT(a, b) == a.num * b.den > b.num * a.den

----------------------------------------------------------------------------
(* Unicode patterns: a character class is a set of codepoint ranges. *)

HEBREW_PATTERN == {<<1424, 1535>>}
GREEK_PATTERN == {<<880, 1023>>, <<7936, 8191>>}
IMPERIAL_ARAMAIC_PATTERN == {<<67648, 67679>>}

InClass(pattern, c) == \E r \in pattern : r[1] <= c /\ c <= r[2]

\* the end of the greedy match [class]+ that starts at i
RECURSIVE MatchEnd(_, _, _)
MatchEnd(pattern, s, j) ==
    IF j < Len(s) /\ InClass(pattern, s[j + 1])
    THEN MatchEnd(pattern, s, j + 1)
    ELSE j

RECURSIVE findall_from(_, _, _)
findall_from(pattern, s, i) ==
    IF i > Len(s) THEN <<>>
    ELSE IF ~InClass(pattern, s[i]) THEN findall_from(pattern, s, i + 1)
    ELSE LET j == MatchEnd(pattern, s, i)
         IN  <<SubSeq(s, i, j)>> \o findall_from(pattern, s, j + 1)

\* variant of findall: the class without "+", one match for each character
findall_count_chars(pattern, s) ==
    LET idx == {i \in 1..Len(s) : InClass(pattern, s[i])}
        RECURSIVE each(_)
        each(i) == IF i > Len(s) THEN <<>>
                   ELSE IF i \in idx THEN <<SubSeq(s, i, i)>> \o each(i + 1)
                   ELSE each(i + 1)
    IN  each(1)

\* re.findall of [class]+ : the non-overlapping maximal matches, left to right
findall(pattern, s) == findall_from(pattern, s, 1)

\* word in text
Contains(word, s) ==
    \E i \in 0..(Len(s) - Len(word)) : SubSeq(s, i + 1, i + Len(word)) = word

----------------------------------------------------------------------------
(* Reference tables. *)

\* book keys, as codepoints
K_daniel == <<100, 97, 110, 105, 101, 108>>
K_ezra == <<101, 122, 114, 97>>
K_jeremiah == <<106, 101, 114, 101, 109, 105, 97, 104>>
K_genesis == <<103, 101, 110, 101, 115, 105, 115>>

ARAMAIC_PASSAGES ==
    (K_daniel :> [chapters |-> << <<2, 4, 7, 28>> >>, verses |-> {}])
    @@ (K_ezra :> [chapters |-> <<>>,
                   verses |-> {<<4, v>> : v \in 8..24}
                              \cup {<<5, v>> : v \in 1..17}
                              \cup {<<6, v>> : v \in 1..18}
                              \cup {<<7, v>> : v \in 12..26}])
    @@ (K_jeremiah :> [chapters |-> <<>>, verses |-> {<<10, 11>>}])
    @@ (K_genesis :> [chapters |-> <<>>, verses |-> {<<31, 47>>}])

\* the vocabulary words, in source order
W_di_pointed == <<1491, 1460, 1468, 1497>>
W_di == <<1491, 1497>>
W_malka_pointed == <<1502, 1463, 1500, 1456, 1499, 1464, 1468, 1488>>
W_malka == <<1502, 1500, 1499, 1488>>
W_elah_pointed == <<1488, 1457, 1500, 1464, 1492, 1468>>
W_elah == <<1488, 1500, 1492>>
W_qodam_pointed == <<1511, 1459, 1491, 1464, 1501>>
W_qodam == <<1511, 1491, 1501>>
W_kean_pointed == <<1499, 1456, 1468, 1506, 1463, 1503>>
W_kean == <<1499, 1506, 1503>>
W_la_pointed == <<1500, 1464, 1488>>
W_la == <<1500, 1488>>
W_hava_pointed == <<1492, 1458, 1493, 1464, 1488>>
W_hava == <<1492, 1493, 1488>>

ARAMAIC_VOCABULARY ==
    <<W_di_pointed, W_di, W_malka_pointed, W_malka, W_elah_pointed, W_elah,
      W_qodam_pointed, W_qodam, W_kean_pointed, W_kean, W_la_pointed, W_la,
      W_hava_pointed, W_hava>>

----------------------------------------------------------------------------
(* is_aramaic_passage *)

\* str.lower() on ASCII letters
Lower(s) == [i \in 1..Len(s) |-> IF s[i] \in 65..90 THEN s[i] + 32 ELSE s[i]]

\* str.replace(c, '')
Remove(s, c) == SelectSeq(s, LAMBDA x : x # c)

\* '1samuel': 'samuel1', ... : a leading 1 or 2 moves behind the name
book_map ==
    LET one == 49
        two == 50
        samuel == <<115, 97, 109, 117, 101, 108>>
        kings == <<107, 105, 110, 103, 115>>
        chronicles == <<99, 104, 114, 111, 110, 105, 99, 108, 101, 115>>
    IN  (<<one>> \o samuel :> samuel \o <<one>>)
        @@ (<<two>> \o samuel :> samuel \o <<two>>)
        @@ (<<one>> \o kings :> kings \o <<one>>)
        @@ (<<two>> \o kings :> kings \o <<two>>)
        @@ (<<one>> \o chronicles :> chronicles \o <<one>>)
        @@ (<<two>> \o chronicles :> chronicles \o <<two>>)

\* book.lower().replace(' ', '').replace('-', ''), then book_map.get
book_lower(bk) ==
    LET b == Remove(Remove(Lower(bk.v), 32), 45)
    IN  IF b \in DOMAIN book_map THEN book_map[b] ELSE b

\* (chapter, verse) in passage_info['verses']
in_verses(info, chap, vrs) ==
    /\ chap.type = "int"
    /\ vrs.type = "int"
    /\ <<chap.v[1], vrs.v[1]>> \in info.verses

\* variant of range_test: vrs > v_start in place of vrs >= v_start
range_test_strict_start(entry, chap, vrs) ==
    LET ch_start == entry[1]
        v_start == entry[2]
        ch_end == entry[3]
        v_end == entry[4]
    IN  IF chap.type # "int" THEN "TypeError"
        ELSE LET c == chap.v[1] IN
        IF ~(ch_start <= c /\ c <= ch_end) THEN "False"
        ELSE IF c = ch_start /\ vrs.type # "int" THEN "TypeError"
        ELSE IF c = ch_start /\ vrs.v[1] > v_start THEN "True"
        ELSE IF c = ch_end /\ vrs.type # "int" THEN "TypeError"
        ELSE IF c = ch_end /\ vrs.v[1] <= v_end THEN "True"
        ELSE IF ch_start < c /\ c < ch_end THEN "True"
        ELSE "False"

\* One entry of the chapter-range loop: "True" returns True, "False" goes on
\* to the next entry, "TypeError" is an int compared with None.
range_test(entry, chap, vrs) ==
    LET ch_start == entry[1]
        v_start == entry[2]
        ch_end == entry[3]
        v_end == entry[4]
    IN  IF chap.type # "int" THEN "TypeError"
        ELSE LET c == chap.v[1] IN
        IF ~(ch_start <= c /\ c <= ch_end) THEN "False"
        ELSE IF c = ch_start /\ vrs.type # "int" THEN "TypeError"
        ELSE IF c = ch_start /\ vrs.v[1] >= v_start THEN "True"
        ELSE IF c = ch_end /\ vrs.type # "int" THEN "TypeError"
        ELSE IF c = ch_end /\ vrs.v[1] <= v_end THEN "True"
        ELSE IF ch_start < c /\ c < ch_end THEN "True"
        ELSE "False"

\* for ch_start, v_start, ch_end, v_end in passage_info['chapters']: ...
RECURSIVE chapter_range_loop(_, _, _, _)
chapter_range_loop(ranges, i, chap, vrs) ==
    IF i > Len(ranges) THEN "False"
    ELSE LET t == range_test(ranges[i], chap, vrs)
         IN  IF t = "False"
             THEN chapter_range_loop(ranges, i + 1, chap, vrs)
             ELSE t

\* The outcome of is_aramaic_passage(book, chapter, verse): "True", "False",
\* or the exception it raises.
is_aramaic_passage(bk, chap, vrs) ==
    IF bk.type # "str" THEN "AttributeError"
    ELSE LET key == book_lower(bk) IN
    IF key \notin DOMAIN passages THEN "False"
    ELSE LET passage_info == passages[key] IN
    IF in_verses(passage_info, chap, vrs) THEN "True"
    ELSE chapter_range_loop(passage_info.chapters, 1, chap, vrs)

----------------------------------------------------------------------------
(* detect_aramaic_vocabulary *)

\* variant of vocab_confidence_of: len(matched) / 4
vocab_confidence_of_quarter(n) == IF n >= 4 THEN Float(1, 1) ELSE Float(n, 4)

\* min(len(matched) / 3, 1.0)
vocab_confidence_of(n) == IF n >= 3 THEN Float(1, 1) ELSE Float(n, 3)

detect_aramaic_vocabulary(s) ==
    LET matched == SelectSeq(vocabulary, LAMBDA word : Contains(word, s))
    IN  IF Len(s) = 0 \/ Len(matched) = 0
        THEN [is_likely |-> FALSE, matched |-> <<>>, confidence |-> Float(0, 1)]
        ELSE [is_likely |-> Len(matched) >= 1,
              matched |-> matched,
              confidence |-> vocab_confidence_of(Len(matched))]

\* variant of vocabulary_after: the loop takes the matched words out of the set
vocabulary_after_discard(vocab, s) ==
    SelectSeq(vocab, LAMBDA word : ~Contains(word, s))

\* ARAMAIC_VOCABULARY after the loop "for word in ARAMAIC_VOCABULARY": the
\* loop reads the set and appends to the local list matched; it never writes
\* the set.
vocabulary_after(vocab, s) == vocab

----------------------------------------------------------------------------
(* detect_language *)

\* the unknown result of lines 176-185
UnknownResult ==
    [raised |-> "",
     language |-> "unknown",
     confidence |-> Float(0, 1),
     matches |-> <<>>,
     hebrew_count |-> 0,
     greek_count |-> 0,
     aramaic_count |-> 0,
     aramaic_words |-> <<>>,
     is_known_aramaic_passage |-> FALSE]

\* the call did not return: it raised exc
Raised(exc) == [UnknownResult EXCEPT !.raised = exc, !.language = ""]

\* no call yet
NotCalled == [UnknownResult EXCEPT !.language = ""]

\* variant of IsDegenerate: without the isinstance test
IsDegenerate_emptyOnly(t) == ~Truthy(t)

\* if not text or not isinstance(text, str)
IsDegenerate(t) == ~Truthy(t) \/ t.type # "str"

\* variant of HintsSupplied: the verse is not asked for
HintsSupplied_noVerse(b, c, v) == Truthy(b) /\ Truthy(c)

\* if book and chapter and verse
HintsSupplied(b, c, v) == Truthy(b) /\ Truthy(c) /\ Truthy(v)

\* variant of Rule2Confidence: the total of rules 4 and 5, hebrew + greek
Rule2Confidence_hebrewGreekTotal(h, g, i) ==
    LET aramaic_count == h + i
        total == h + g
    IN  IF total > 0 THEN Float(aramaic_count, total) ELSE Float(1, 1)

\* rule 2: aramaic_count / total if total > 0 else 1.0
Rule2Confidence(h, g, i) ==
    LET aramaic_count == h + i
        total == h + g + i
    IN  IF total > 0 THEN Float(aramaic_count, total) ELSE Float(1, 1)

\* rules 4 and 5: count / total if total > 0 else 1.0
ShareOf(count, h, g) ==
    LET total == h + g
    IN  IF total > 0 THEN Float(count, total) ELSE Float(1, 1)

\* variant of VocabDecisive: any positive confidence
VocabDecisive_noThreshold(conf) == FloatGT(conf, Float(0, 1))

\* vocab_confidence > 0.5
VocabDecisive(conf) == FloatGT(conf, Float(5, 10))

\* variant of FiredRule: the Greek branch tested before the Hebrew branch
FiredRule_greekFirst(is_known_aramaic, hebrew_count, greek_count, imperial_count, vocab) ==
    IF is_known_aramaic /\ hebrew_count > 0 THEN 1
    ELSE IF imperial_count > 0 THEN 2
    ELSE IF vocab.is_likely /\ hebrew_count > 0
            /\ VocabDecisive(vocab.confidence) THEN 3
    ELSE IF greek_count > 0 THEN 5
    ELSE IF hebrew_count > 0 THEN 4
    ELSE 6

\* variant of FiredRule: the Imperial-Aramaic branch tested first
FiredRule_imperialFirst(is_known_aramaic, hebrew_count, greek_count, imperial_count, vocab) ==
    IF imperial_count > 0 THEN 2
    ELSE IF is_known_aramaic /\ hebrew_count > 0 THEN 1
    ELSE IF vocab.is_likely /\ hebrew_count > 0
            /\ VocabDecisive(vocab.confidence) THEN 3
    ELSE IF hebrew_count > 0 THEN 4
    ELSE IF greek_count > 0 THEN 5
    ELSE 6

\* lines 217-250: which branch of the if/elif chain is taken (6: none)
FiredRule(is_known_aramaic, hebrew_count, greek_count, imperial_count, vocab) ==
    IF is_known_aramaic /\ hebrew_count > 0 THEN 1
    ELSE IF imperial_count > 0 THEN 2
    ELSE IF vocab.is_likely /\ hebrew_count > 0
            /\ VocabDecisive(vocab.confidence) THEN 3
    ELSE IF hebrew_count > 0 THEN 4
    ELSE IF greek_count > 0 THEN 5
    ELSE 6

\* lines 204-261: the assignments of the taken branch and the returned dict
Decide(hebrew_matches, greek_matches, imperial_aramaic_matches, known, vocab) ==
    LET hebrew_count == Len(hebrew_matches)
        greek_count == Len(greek_matches)
        imperial_aramaic_count == Len(imperial_aramaic_matches)
        rule == FiredRule(known, hebrew_count, greek_count,
                          imperial_aramaic_count, vocab)
        base == [UnknownResult EXCEPT
                    !.hebrew_count = hebrew_count,
                    !.greek_count = greek_count,
                    !.aramaic_words = vocab.matched,
                    !.is_known_aramaic_passage = known]
    IN  CASE rule = 1 ->
                [base EXCEPT !.language = "aramaic",
                             !.matches = hebrew_matches,
                             !.aramaic_count = hebrew_count,
                             !.confidence = Float(95, 100)]
          [] rule = 2 ->
                [base EXCEPT !.language = "aramaic",
                             !.matches =
                                 hebrew_matches \o imperial_aramaic_matches,
                             !.aramaic_count =
                                 Len(hebrew_matches \o imperial_aramaic_matches),
                             !.confidence =
                                 Rule2Confidence(hebrew_count, greek_count,
                                                 imperial_aramaic_count)]
          [] rule = 3 ->
                [base EXCEPT !.language = "aramaic",
                             !.matches = hebrew_matches,
                             !.aramaic_count = hebrew_count,
                             !.confidence = vocab.confidence]
          [] rule = 4 ->
                [base EXCEPT !.language = "hebrew",
                             !.matches = hebrew_matches,
                             !.confidence =
                                 ShareOf(hebrew_count, hebrew_count, greek_count),
                             !.aramaic_count = 0]
          [] rule = 5 ->
                [base EXCEPT !.language = "greek",
                             !.matches = greek_matches,
                             !.confidence =
                                 ShareOf(greek_count, hebrew_count, greek_count),
                             !.aramaic_count = 0]
          [] OTHER -> base

detect_language(t, b, c, v) ==
    IF IsDegenerate(t) THEN UnknownResult
    ELSE IF t.type # "str" THEN Raised("TypeError")  \* findall of a non-str
    ELSE LET hebrew_matches == findall(HEBREW_PATTERN, t.v)
             greek_matches == findall(GREEK_PATTERN, t.v)
             imperial_aramaic_matches == findall(IMPERIAL_ARAMAIC_PATTERN, t.v)
             looked_up == IF HintsSupplied(b, c, v)
                          THEN is_aramaic_passage(b, c, v)
                          ELSE "False"
         IN  IF looked_up \notin {"True", "False"} THEN Raised(looked_up)
             ELSE Decide(hebrew_matches, greek_matches,
                         imperial_aramaic_matches, looked_up = "True",
                         detect_aramaic_vocabulary(t.v))

----------------------------------------------------------------------------
(* Inputs. *)

\* the sample texts of the module's own tests 1, 2 and 4
hebrew_text ==
    <<1489, 1456, 1468, 1512, 1461, 1488, 1513, 1460, 1473, 1497, 1514, 32,
      1489, 1464, 1468, 1512, 1464, 1488, 32,
      1488, 1457, 1500, 1465, 1492, 1460, 1497, 1501>>
greek_text ==
    <<7960, 957, 32, 7936, 961, 967, 8135, 32, 7974, 957, 32, 8001, 32,
      955, 972, 947, 959, 962>>
aramaic_vocab_text ==
    <<1491, 1497, 32, 1502, 1463, 1500, 1456, 1499, 1464, 1468, 1488, 32,
      1488, 1457, 1500, 1464, 1492, 1468>>
\* one Imperial-Aramaic letter (U+10840) and a space
imperial_aleph == <<67648>>
space == <<32>>

SampleChunks ==
    {hebrew_text, greek_text, aramaic_vocab_text, W_la, W_hava,
     imperial_aleph, space}

RECURSIVE Flatten(_)
Flatten(ss) == IF ss = <<>> THEN <<>> ELSE Head(ss) \o Flatten(Tail(ss))

\* every concatenation of at most MaxChunks chunks
Texts ==
    {Flatten(cs) : cs \in UNION {[1..n -> SampleChunks] : n \in 0..MaxChunks}}

\* a str, or a value that is not a str (None is falsy, 7 is truthy)
TextArgs == {PyStr(t) : t \in Texts} \cup {None, PyInt(7)}

S_Daniel == <<68, 97, 110, 105, 101, 108>>
S_ruth == <<114, 117, 116, 104>>
BookHints == {None, PyStr(S_Daniel), PyStr(S_ruth), PyInt(5)}
ChapterHints == {None, PyInt(0), PyInt(2)}
VerseHints == {None, PyInt(3), PyInt(4)}

Reverse(s) == [i \in 1..Len(s) |-> s[Len(s) + 1 - i]]

\* The iteration order of a set of str is fixed when the process starts (the
\* hash seed) and differs between processes.
VocabularyOrders == {ARAMAIC_VOCABULARY, Reverse(ARAMAIC_VOCABULARY)}

----------------------------------------------------------------------------
(* extract_hebrew_from_bhs.py: parse_verses_from_text, the line scanner.    *)

\* [\u0590-\u05FF\u05B0-\u05BC\u05C1-\u05C2\u05C4-\u05C5\u05C7]+ : the later
\* ranges lie inside the first
BHS_HEBREW_PATTERN ==
    {<<1424, 1535>>, <<1456, 1468>>, <<1473, 1474>>, <<1476, 1477>>,
     <<1479, 1479>>}

\* book ids and the names the book patterns look for
K_exodus == <<101, 120, 111, 100, 117, 115>>
K_leviticus == <<108, 101, 118, 105, 116, 105, 99, 117, 115>>
K_numbers == <<110, 117, 109, 98, 101, 114, 115>>
K_deuteronomy == <<100, 101, 117, 116, 101, 114, 111, 110, 111, 109, 121>>
N_bereshit == <<1489, 1512, 1488, 1513, 1497, 1514>>
N_shemot == <<1513, 1502, 1493, 1514>>
N_vayikra == <<1493, 1497, 1511, 1512, 1488>>
N_bamidbar == <<1489, 1502, 1491, 1489, 1512>>
N_devarim == <<1491, 1489, 1512, 1497, 1501>>

\* (pattern, book_id) in list order; a pattern is an alternation of two names
book_patterns ==
    <<[names |-> {K_genesis, N_bereshit}, book_id |-> K_genesis],
      [names |-> {K_exodus, N_shemot}, book_id |-> K_exodus],
      [names |-> {K_leviticus, N_vayikra}, book_id |-> K_leviticus],
      [names |-> {K_numbers, N_bamidbar}, book_id |-> K_numbers],
      [names |-> {K_deuteronomy, N_devarim}, book_id |-> K_deuteronomy]>>

\* re.search(pattern, line, re.IGNORECASE): one of the names occurs in the
\* line, letter case ignored
book_search(names, line) == \E n \in names : Contains(n, Lower(line))

\* the first pattern of the list that the line matches (0: none); the loop
\* breaks on it
first_book_pattern(line) ==
    LET hits == {i \in 1..Len(book_patterns) :
                    book_search(book_patterns[i].names, line)}
    IN  IF hits = {} THEN 0
        ELSE CHOOSE i \in hits : \A j \in hits : i <= j

\* \d
IsDigit(c) == c \in 48..57

\* the end of the run of digits that starts at i
RECURSIVE DigitsEnd(_, _)
DigitsEnd(s, j) ==
    IF j < Len(s) /\ IsDigit(s[j + 1]) THEN DigitsEnd(s, j + 1) ELSE j

\* positions where (\d+):(\d+) matches: a digit run, a colon, a digit
verse_match_starts(line) ==
    {i \in 1..Len(line) :
        /\ IsDigit(line[i])
        /\ LET e == DigitsEnd(line, i)
           IN  e + 2 <= Len(line) /\ line[e + 1] = 58 /\ IsDigit(line[e + 2])}

\* int() of a run of digits
RECURSIVE int(_)
int(digits) ==
    IF digits = <<>> THEN 0
    ELSE 10 * int(SubSeq(digits, 1, Len(digits) - 1))
         + (digits[Len(digits)] - 48)

\* verse_pattern.search(line): the leftmost match and its two groups, as
\* numbers; matched is FALSE when the search returns None
verse_pattern_search(line) ==
    LET starts == verse_match_starts(line)
    IN  IF starts = {} THEN [matched |-> FALSE, group1 |-> 0, group2 |-> 0]
        ELSE LET i == CHOOSE k \in starts : \A j \in starts : k <= j
                 e == DigitsEnd(line, i)
                 f == DigitsEnd(line, e + 2)
             IN  [matched |-> TRUE,
                  group1 |-> int(SubSeq(line, i, e)),
                  group2 |-> int(SubSeq(line, e + 2, f))]

\* str(n) of a non-negative int
RECURSIVE Decimal(_)
Decimal(n) ==
    IF n < 10 THEN <<48 + n>> ELSE Decimal(n \div 10) \o <<48 + (n % 10)>>

\* f"{current_book}-{current_chapter}-{current_verse}"
verse_key(bk, chap, vrs) ==
    bk \o <<45>> \o Decimal(chap) \o <<45>> \o Decimal(vrs)

\* ' '.join(segments)
RECURSIVE JoinSpace(_)
JoinSpace(segments) ==
    IF segments = <<>> THEN <<>>
    ELSE IF Len(segments) = 1 THEN segments[1]
    ELSE segments[1] \o <<32>> \o JoinSpace(Tail(segments))

\* variant of position_after: the book loop runs after the verse search
position_after_book_last(line, bk, chap, vrs) ==
    LET p == first_book_pattern(line)
        m == verse_pattern_search(line)
    IN  [book |-> IF p = 0 THEN bk ELSE book_patterns[p].book_id,
         chapter |-> IF p # 0 THEN 1
                     ELSE IF m.matched THEN m.group1 ELSE chap,
         verse |-> IF p # 0 THEN 0
                   ELSE IF m.matched THEN m.group2 ELSE vrs]

\* variant of position_after: a line without a reference leaves the verse
position_after_leaves_verse(line, bk, chap, vrs) ==
    LET p == first_book_pattern(line)
        b1 == IF p = 0 THEN bk ELSE book_patterns[p].book_id
        c1 == IF p = 0 THEN chap ELSE 1
        m == verse_pattern_search(line)
    IN  [book |-> b1,
         chapter |-> IF m.matched THEN m.group1 ELSE c1,
         verse |-> IF m.matched THEN m.group2 ELSE 0]

\* the scanner's position after the book loop and the verse search of a line
position_after(line, bk, chap, vrs) ==
    LET p == first_book_pattern(line)
        b1 == IF p = 0 THEN bk ELSE book_patterns[p].book_id
        c1 == IF p = 0 THEN chap ELSE 1
        v1 == IF p = 0 THEN vrs ELSE 0
        m == verse_pattern_search(line)
    IN  [book |-> b1,
         chapter |-> IF m.matched THEN m.group1 ELSE c1,
         verse |-> IF m.matched THEN m.group2 ELSE v1]

\* if hebrew_in_line and current_verse > 0
stores_text(hebrew_in_line, vrs) == hebrew_in_line # <<>> /\ vrs > 0

\* variant of verses_after: a later line replaces the entry
verses_after_overwrite(d, key, joined) ==
    IF \E i \in 1..Len(d) : d[i].key = key
    THEN [i \in 1..Len(d) |->
             IF d[i].key = key THEN [key |-> key, value |-> joined] ELSE d[i]]
    ELSE Append(d, [key |-> key, value |-> joined])

\* verses[key] = hebrew_text if the key is new, else += ' ' + hebrew_text;
\* the dict is the sequence of its items in insertion order
verses_after(d, key, joined) ==
    IF \E i \in 1..Len(d) : d[i].key = key
    THEN [i \in 1..Len(d) |->
             IF d[i].key = key
             THEN [key |-> key, value |-> d[i].value \o <<32>> \o joined]
             ELSE d[i]]
    ELSE Append(d, [key |-> key, value |-> joined])

\* the scanner before its first line
ParserIdle ==
    /\ lines = <<>>
    /\ current_book = K_genesis
    /\ current_chapter = 1
    /\ current_verse = 0
    /\ verses = <<>>
    /\ attributed = <<>>

----------------------------------------------------------------------------
(* verify_ocr_accuracy.py: find_verse_in_ocr and what it calls.             *)

\* [\u0590-\u05FF\uFB1D-\uFB4F]+ and [\u0370-\u03FF\u1F00-\u1FFF]+
OCR_HEBREW_PATTERN == {<<1424, 1535>>, <<64285, 64335>>}
OCR_GREEK_PATTERN == {<<880, 1023>>, <<7936, 8191>>}

\* \s of re and the separators of str.split() and str.strip()
IsSpace(c) ==
    \/ c \in 9..13 \/ c \in 28..32 \/ c = 133 \/ c = 160 \/ c = 5760
    \/ c \in 8192..8202 \/ c \in {8232, 8233, 8239, 8287, 12288}

\* re.sub(r'\s+', ' ', s): every run of whitespace becomes one space
RECURSIVE collapse_whitespace(_)
collapse_whitespace(s) ==
    IF s = <<>> THEN <<>>
    ELSE IF ~IsSpace(s[1]) THEN <<s[1]>> \o collapse_whitespace(Tail(s))
    ELSE IF Len(s) >= 2 /\ IsSpace(s[2]) THEN collapse_whitespace(Tail(s))
    ELSE <<32>> \o collapse_whitespace(Tail(s))

\* str.strip()
RECURSIVE strip(_)
strip(s) ==
    IF s = <<>> THEN <<>>
    ELSE IF IsSpace(s[1]) THEN strip(Tail(s))
    ELSE IF IsSpace(s[Len(s)]) THEN strip(SubSeq(s, 1, Len(s) - 1))
    ELSE s

\* remove [\u0591-\u05C7], remove [\u0300-\u036F], collapse whitespace, strip
normalize_text(s) ==
    LET unmarked == SelectSeq(s, LAMBDA c : ~(c \in 1425..1479))
        plain == SelectSeq(unmarked, LAMBDA c : ~(c \in 768..879))
    IN  strip(collapse_whitespace(plain))

\* SequenceMatcher.find_longest_match on a[alo..ahi] and b[blo..bhi]: the
\* longest common block, the earliest in a, then the earliest in b; size 0
\* when the two share no character
find_longest_match(a, b, alo, ahi, blo, bhi) ==
    LET blocks == {m \in (alo..ahi) \X (blo..bhi) \X (1..(ahi - alo + 1)) :
                      /\ m[1] + m[3] - 1 <= ahi
                      /\ m[2] + m[3] - 1 <= bhi
                      /\ SubSeq(a, m[1], m[1] + m[3] - 1)
                           = SubSeq(b, m[2], m[2] + m[3] - 1)}
    IN  IF blocks = {} THEN <<alo, blo, 0>>
        ELSE CHOOSE m \in blocks :
                \A n \in blocks :
                    \/ m[3] > n[3]
                    \/ (m[3] = n[3] /\ m[1] < n[1])
                    \/ (m[3] = n[3] /\ m[1] = n[1] /\ m[2] <= n[2])

\* the total size of SequenceMatcher.get_matching_blocks: the longest block,
\* then the same to its left and to its right
RECURSIVE matching_size(_, _, _, _, _, _)
matching_size(a, b, alo, ahi, blo, bhi) ==
    IF alo > ahi \/ blo > bhi THEN 0
    ELSE LET m == find_longest_match(a, b, alo, ahi, blo, bhi)
         IN  IF m[3] = 0 THEN 0
             ELSE m[3]
                  + matching_size(a, b, alo, m[1] - 1, blo, m[2] - 1)
                  + matching_size(a, b, m[1] + m[3], ahi, m[2] + m[3], bhi)

\* SequenceMatcher(None, a, b).ratio(): 2.0 * matches / length, 1.0 when
\* both are empty (strings shorter than 200, where autojunk does not act)
ratio(a, b) ==
    IF Len(a) + Len(b) = 0 THEN Float(1, 1)
    ELSE Float(2 * matching_size(a, b, 1, Len(a), 1, Len(b)),
               Len(a) + Len(b))

\* variant of calculate_similarity: no guard on an empty text
calculate_similarity_unguarded(text1, text2) ==
    ratio(normalize_text(text1), normalize_text(text2))

\* 0.0 if either text is empty, else the ratio of the normalized texts
calculate_similarity(text1, text2) ==
    IF text1 = <<>> \/ text2 = <<>> THEN Float(0, 1)
    ELSE ratio(normalize_text(text1), normalize_text(text2))

\* str.split(): the maximal runs of non-whitespace
RECURSIVE split(_)
split(s) ==
    IF s = <<>> THEN <<>>
    ELSE IF IsSpace(s[1]) THEN split(Tail(s))
    ELSE LET ends == {k \in 1..Len(s) :
                         /\ \A i \in 1..k : ~IsSpace(s[i])
                         /\ (k = Len(s) \/ IsSpace(s[k + 1]))}
             k == CHOOSE e \in ends : TRUE
         IN  <<SubSeq(s, 1, k)>> \o split(SubSeq(s, k + 1, Len(s)))

\* variant of similar_enough: the 0.3 of the report loop
similar_enough_report(similarity) == FloatGT(similarity, Float(3, 10))

\* similarity > 0.5
similar_enough(similarity) == FloatGT(similarity, Float(1, 2))

\* the returned tuple (found, similarity, matched_text)
Verdict(f, sim, matched) ==
    [called |-> TRUE, found |-> f, similarity |-> sim, matched_text |-> matched]
NotVerified ==
    [called |-> FALSE, found |-> FALSE, similarity |-> Float(0, 1),
     matched_text |-> <<>>]

find_verse_in_ocr(ocr, verified, script) ==
    LET ocr_segments == findall(script, ocr)
        ocr_combined == JoinSpace(ocr_segments)
        verified_words == split(verified)
        first_word == verified_words[1]
        similarity == calculate_similarity(verified, ocr_combined)
    IN  IF Contains(verified, ocr_combined)
        THEN Verdict(TRUE, Float(1, 1), verified)
        ELSE IF verified_words = <<>>
        THEN Verdict(FALSE, Float(0, 1), <<>>)
        ELSE IF Contains(first_word, ocr_combined)
        THEN Verdict(TRUE, similarity, first_word)
        ELSE Verdict(similar_enough(similarity), similarity, <<>>)

----------------------------------------------------------------------------
(* The verse loop of verify_ocr_accuracy and its average.  A float is an    *)
(* exact fraction; round(x, 2) is the set of the values it can return.     *)

\* for ... in list(verified_data.items())[:20]
CheckLimit == 20

RECURSIVE GCD(_, _)
GCD(a, b) == IF b = 0 THEN a ELSE GCD(b, a % b)

\* the fraction n / d in lowest terms
Reduced(n, d) ==
    LET g == GCD(n, d)
    IN  IF g = 0 THEN Float(n, d) ELSE Float(n \div g, d \div g)

\* a + b
FloatAdd(a, b) == Reduced(a.num * b.den + b.num * a.den, a.den * b.den)

\* sum(accuracy_scores)
RECURSIVE FloatSum(_)
FloatSum(scores) ==
    IF scores = <<>> THEN Float(0, 1)
    ELSE FloatAdd(FloatSum(SubSeq(scores, 1, Len(scores) - 1)),
                  scores[Len(scores)])

\* x is a float without representation error: its denominator in lowest
\* terms is a power of two
RECURSIVE IsPowerOfTwo(_)
IsPowerOfTwo(d) == d = 1 \/ (d % 2 = 0 /\ IsPowerOfTwo(d \div 2))

\* variant of round_2: the value is not rounded
round_2_exact(x) == {x}

\* round(x, 2) for x >= 0: the nearest multiple of 0.01.  Half-way between
\* two of them the nearest even one is returned if x is held exactly; if
\* not, the float that holds x lies on one side of the middle, and either
\* neighbour can be the result.
round_2(x) ==
    LET q == (100 * x.num) \div x.den
        rest == (100 * x.num) % x.den
    IN  IF 2 * rest < x.den THEN {Float(q, 100)}
        ELSE IF 2 * rest > x.den THEN {Float(q + 1, 100)}
        ELSE IF IsPowerOfTwo(Reduced(x.num, x.den).den)
        THEN {Float(IF q % 2 = 0 THEN q ELSE q + 1, 100)}
        ELSE {Float(q, 100), Float(q + 1, 100)}

\* verified_text[:50] + "..." if len(verified_text) > 50 else verified_text
shown(verified) ==
    IF Len(verified) > 50 THEN SubSeq(verified, 1, 50) \o <<46, 46, 46>>
    ELSE verified

\* if found and similarity > 0.3
counts_as_match(found, similarity) ==
    found /\ FloatGT(similarity, Float(3, 10))

\* the verse fields of results before the verse loop
report_init ==
    [verified_verses_found |-> 0, verses_checked |-> <<>>,
     accuracy_scores |-> <<>>, matches |-> <<>>, misses |-> <<>>]

\* the body of the verse loop for one item of verified_data; rounded is
\* round(similarity, 2)
check_verse(rep, item, ocr, script, rounded) ==
    LET v == find_verse_in_ocr(ocr, item.text, script)
        entry == [verse |-> item.verse, similarity |-> rounded,
                  verified |-> shown(item.text)]
        seen == [rep EXCEPT !.verses_checked = Append(@, item.verse),
                            !.accuracy_scores = Append(@, v.similarity)]
    IN  IF counts_as_match(v.found, v.similarity)
        THEN [seen EXCEPT !.verified_verses_found = @ + 1,
                          !.matches = Append(@, entry)]
        ELSE [seen EXCEPT !.misses = Append(@, entry)]

\* sum(accuracy_scores) / len(accuracy_scores), before it is rounded
mean(scores) ==
    LET total == FloatSum(scores)
    IN  Reduced(total.num, total.den * Len(scores))

\* the values results['average_accuracy'] can take
average_accuracy(scores) ==
    IF scores = <<>> THEN {Float(0, 1)} ELSE round_2(mean(scores))

\* verify_ocr_accuracy is not running
ReportIdle ==
    /\ verified_data = <<>>
    /\ report = <<>>
    /\ verse_loop = "idle"

\* the verifier before a call
VerifierIdle ==
    /\ ocr_text = <<>>
    /\ verified_text = <<>>
    /\ script_pattern = OCR_HEBREW_PATTERN
    /\ verdict = NotVerified
    /\ ReportIdle

----------------------------------------------------------------------------
(* The page loops: verify_ocr_accuracy (verify_ocr_accuracy.py) and         *)
(* process_pdf (extract_scriptures_ocr.py, extract_hebrew_ocr.py).  A page  *)
(* is what rendering and OCR do on it: [render, ocr, text], each of render  *)
(* and ocr "ok" or "raises", text what the OCR engine reads.               *)

RenderFails == [render |-> "raises", ocr |-> "ok", text |-> <<>>]
OcrFails == [render |-> "ok", ocr |-> "raises", text |-> <<>>]
Page(t) == [render |-> "ok", ocr |-> "ok", text |-> t]

\* the three functions that loop over pages
F_verify == "verify_ocr_accuracy"
F_scriptures == "extract_scriptures_ocr.process_pdf"
F_hebrew == "extract_hebrew_ocr.process_pdf"

\* results before the loop
results_init(f) ==
    CASE f = F_verify ->
            [pages_checked |-> 0, total_ocr_segments |-> 0,
             all_ocr_text |-> <<>>]
      [] f = F_scriptures ->
            [pages_processed |-> 0, total_hebrew |-> 0, total_greek |-> 0,
             pages |-> <<>>]
      [] f = F_hebrew -> [pages |-> <<>>]

\* variant of handler_catches: an error of the renderer passes the handler
handler_catches_ocr_only(exc) == exc = "OcrError"

\* except Exception as e: every error of the renderer or the OCR engine
handler_catches(exc) == exc \in {"RenderError", "OcrError"}

\* f"page-{page_num + 1}"
page_key(page_num) == <<112, 97, 103, 101, 45>> \o Decimal(page_num + 1)

\* VERSE_REF_PATTERN.findall and f"{ch}:{vs}": the matches of
\* (\d+)[:\.](\d+) from position i on, left to right
RECURSIVE verse_refs_from(_, _)
verse_refs_from(s, i) ==
    IF i > Len(s) THEN <<>>
    ELSE LET e == DigitsEnd(s, i)
         IN  IF /\ IsDigit(s[i])
                /\ e + 2 <= Len(s)
                /\ s[e + 1] \in {58, 46}
                /\ IsDigit(s[e + 2])
             THEN LET f == DigitsEnd(s, e + 2)
                  IN  <<SubSeq(s, i, e) \o <<58>> \o SubSeq(s, e + 2, f)>>
                      \o verse_refs_from(s, f + 1)
             ELSE verse_refs_from(s, i + 1)

\* ocr_page / run_tesseract: an error of the OCR engine is caught inside and
\* the text is ''
text_or_empty(page) == IF page.ocr = "raises" THEN <<>> ELSE page.text

\* what the try block of a page raises ("": nothing)
raised_in_try(f, page) ==
    IF page.render = "raises" THEN "RenderError"
    ELSE IF f = F_hebrew /\ page.ocr = "raises" THEN "OcrError"
    ELSE ""

\* the try block of verify_ocr_accuracy on a page that renders
verify_page(r, page, script) ==
    LET ptext == text_or_empty(page)
        segments == findall(script, ptext)
    IN  [r EXCEPT !.all_ocr_text = @ \o <<32>> \o ptext,
                  !.total_ocr_segments = @ + Len(segments),
                  !.pages_checked = @ + 1]

\* variant of scriptures_page: the totals count the characters of the joined
\* texts, not the segments
scriptures_page_counts_chars(r, page, page_num) ==
    LET raw_text == text_or_empty(page)
        hebrew_segments == findall(OCR_HEBREW_PATTERN, raw_text)
        greek_segments == findall(OCR_GREEK_PATTERN, raw_text)
        entry == [key |-> page_key(page_num),
                  hebrew_segments |-> hebrew_segments,
                  greek_segments |-> greek_segments,
                  hebrew_text |-> JoinSpace(hebrew_segments),
                  greek_text |-> JoinSpace(greek_segments),
                  verse_refs |-> verse_refs_from(raw_text, 1)]
    IN  [r EXCEPT !.pages = Append(@, entry),
                  !.total_hebrew = @ + Len(entry.hebrew_text),
                  !.total_greek = @ + Len(entry.greek_text),
                  !.pages_processed = @ + 1]

\* extract_from_page and the try block of process_pdf
\* (extract_scriptures_ocr) on a page that renders; detect_language returns
\* a dict with 'language' for every str, and process_pdf does not keep it
scriptures_page(r, page, page_num) ==
    LET raw_text == text_or_empty(page)
        hebrew_segments == findall(OCR_HEBREW_PATTERN, raw_text)
        greek_segments == findall(OCR_GREEK_PATTERN, raw_text)
        entry == [key |-> page_key(page_num),
                  hebrew_segments |-> hebrew_segments,
                  greek_segments |-> greek_segments,
                  hebrew_text |-> JoinSpace(hebrew_segments),
                  greek_text |-> JoinSpace(greek_segments),
                  verse_refs |-> verse_refs_from(raw_text, 1)]
    IN  [r EXCEPT !.pages = Append(@, entry),
                  !.total_hebrew = @ + Len(hebrew_segments),
                  !.total_greek = @ + Len(greek_segments),
                  !.pages_processed = @ + 1]

\* the try block of process_pdf (extract_hebrew_ocr) on a page that renders
\* and is read: an entry only if Hebrew was found (HEBREW_PATTERN of that
\* file is the class [\u0590-\u05FF] too)
hebrew_page(r, page, page_num) ==
    LET hebrew_segments == findall(HEBREW_PATTERN, page.text)
        entry == [key |-> page_key(page_num),
                  hebrew_segments |-> hebrew_segments,
                  hebrew_text |-> JoinSpace(hebrew_segments),
                  raw_text_sample |-> page.text]
    IN  IF hebrew_segments = <<>> THEN r
        ELSE [r EXCEPT !.pages = Append(@, entry)]

\* one iteration of the page loop of f: the results after it, and whether
\* an exception left the loop
page_step(f, r, page, page_num, script) ==
    LET exc == raised_in_try(f, page)
    IN  IF exc # ""
        THEN [results |-> r, escaped |-> ~handler_catches(exc)]
        ELSE [results |->
                 CASE f = F_verify -> verify_page(r, page, script)
                   [] f = F_scriptures -> scriptures_page(r, page, page_num)
                   [] f = F_hebrew -> hebrew_page(r, page, page_num),
              escaped |-> FALSE]

\* variant of on_missing: the dict results is built before the path is
\* checked and returned as it is
on_missing_partial(f) == results_init(f)

\* return {'error': 'PDF not found'} and return {}: what the three
\* functions return for a path that does not exist (the dict results of
\* extract_hebrew_ocr is the dict of its page entries, held in pages)
on_missing(f) ==
    CASE f = F_verify -> [error |-> "PDF not found"]
      [] f = F_scriptures -> <<>>
      [] f = F_hebrew -> [pages |-> <<>>]

\* min(start_page + num_pages, total_pages), the end of the range of pages
range_stop(start, num, total) ==
    IF start + num < total THEN start + num ELSE total

----------------------------------------------------------------------------
(* preprocess_image and test_ocr_configs (extract_scriptures_ocr.py).  An   *)
(* image is its mode and the operations applied to it so far; a contrast   *)
(* factor is held in tenths.                                               *)

\* class OCRConfig: the defaults, and a config that differs in some fields
OCRConfig ==
    [dpi |-> 300, enhance_contrast |-> 15, sharpen |-> TRUE,
     denoise |-> TRUE, threshold |-> FALSE, tesseract_psm |-> 6,
     tesseract_oem |-> 3]

\* the image after one operation that leaves it in mode m
Applied(image, operation, argument, m) ==
    [mode |-> m,
     steps |-> Append(image.steps, [op |-> operation, arg |-> argument])]

\* img.convert('L')
convert_L(image) == Applied(image, "convert", 0, "L")

\* ImageEnhance.Contrast(img).enhance(factor)
enhance(image, factor) ==
    Applied(image, "Contrast.enhance", factor, image.mode)

\* img.filter(ImageFilter.SHARPEN)
filter_SHARPEN(image) == Applied(image, "filter SHARPEN", 0, image.mode)

\* img.filter(ImageFilter.MedianFilter(size=3))
filter_MedianFilter(image) ==
    Applied(image, "filter MedianFilter", 3, image.mode)

\* img.point(lambda x: 0 if x < 128 else 255, '1')
point_threshold(image) == Applied(image, "point", 128, "1")

\* variant of preprocess_image: the image is converted to 'L' only if it
\* has more than one band
preprocess_image_bands(image, cfg) ==
    LET gray == IF image.mode \notin {"1", "L", "P", "I", "F"}
                THEN convert_L(image) ELSE image
        contrasted == IF cfg.enhance_contrast # 10
                      THEN enhance(gray, cfg.enhance_contrast) ELSE gray
        sharpened == IF cfg.sharpen THEN filter_SHARPEN(contrasted)
                     ELSE contrasted
        denoised == IF cfg.denoise THEN filter_MedianFilter(sharpened)
                    ELSE sharpened
    IN  IF cfg.threshold THEN convert_L(point_threshold(denoised))
        ELSE denoised

preprocess_image(image, cfg) ==
    LET gray == IF image.mode # "L" THEN convert_L(image) ELSE image
        contrasted == IF cfg.enhance_contrast # 10
                      THEN enhance(gray, cfg.enhance_contrast) ELSE gray
        sharpened == IF cfg.sharpen THEN filter_SHARPEN(contrasted)
                     ELSE contrasted
        denoised == IF cfg.denoise THEN filter_MedianFilter(sharpened)
                    ELSE sharpened
    IN  IF cfg.threshold THEN convert_L(point_threshold(denoised))
        ELSE denoised

\* configs = {...}: the items in the order of the dict
configs ==
    <<[name |-> "default", config |-> OCRConfig],
      [name |-> "high_contrast",
       config |-> [OCRConfig EXCEPT !.enhance_contrast = 20]],
      [name |-> "threshold", config |-> [OCRConfig EXCEPT !.threshold = TRUE]],
      [name |-> "high_dpi", config |-> [OCRConfig EXCEPT !.dpi = 400]],
      [name |-> "psm3", config |-> [OCRConfig EXCEPT !.tesseract_psm = 3]],
      [name |-> "psm11", config |-> [OCRConfig EXCEPT !.tesseract_psm = 11]]>>

\* text[:100]
first_100(s) == IF Len(s) > 100 THEN SubSeq(s, 1, 100) ELSE s

\* results[name] = {...} for a page that was rendered under the config
config_result(name, page) ==
    LET raw_text == text_or_empty(page)
        hebrew_segments == findall(OCR_HEBREW_PATTERN, raw_text)
        greek_segments == findall(OCR_GREEK_PATTERN, raw_text)
        joined_hebrew == JoinSpace(hebrew_segments)
        joined_greek == JoinSpace(greek_segments)
    IN  [name |-> name,
         hebrew_count |-> Len(hebrew_segments),
         greek_count |-> Len(greek_segments),
         total_chars |-> Len(raw_text),
         sample |-> IF joined_hebrew # <<>> THEN first_100(joined_hebrew)
                    ELSE first_100(joined_greek)]

\* variant of max_item: a later item replaces an equal one
RECURSIVE max_item_last(_, _)
max_item_last(items, key) ==
    IF Len(items) = 1 THEN items[1]
    ELSE LET best == max_item_last(SubSeq(items, 1, Len(items) - 1), key)
             item == items[Len(items)]
         IN  IF item[key] >= best[key] THEN item ELSE best

\* max(results.items(), key=lambda x: x[1][key]): an item replaces the best
\* so far only if its key is greater
RECURSIVE max_item(_, _)
max_item(items, key) ==
    IF Len(items) = 1 THEN items[1]
    ELSE LET best == max_item(SubSeq(items, 1, Len(items) - 1), key)
             item == items[Len(items)]
         IN  IF item[key] > best[key] THEN item ELSE best

\* no image, no item
NoImage == [mode |-> "", steps |-> <<>>]
NoItem == [name |-> ""]

\* neither preprocess_image nor test_ocr_configs is running
ToolsIdle ==
    /\ config_results = <<>>
    /\ best_hebrew = NoItem
    /\ best_greek = NoItem
    /\ configs_state = "idle"
    /\ img = NoImage
    /\ config = OCRConfig
    /\ img_processed = NoImage

\* no page loop is running
LoopsIdle ==
    /\ running = ""
    /\ pdf_exists = FALSE
    /\ start_page = 0
    /\ num_pages = 0
    /\ total_pages = 0
    /\ pages_done = <<>>
    /\ results = <<>>
    /\ loop_state = "idle"

\* nothing of the OCR scripts is running
PagesIdle == LoopsIdle /\ ToolsIdle

----------------------------------------------------------------------------
(* One call of detect_language. *)

Init ==
    /\ text \in TextArgs
    /\ book \in BookHints
    /\ chapter \in ChapterHints
    /\ verse \in VerseHints
    /\ result = NotCalled
    /\ pc = "ready"
    /\ passages = ARAMAIC_PASSAGES
    /\ vocabulary \in VocabularyOrders
    /\ history = <<>>
    /\ outcome = ""
    /\ ParserIdle
    /\ VerifierIdle
    /\ PagesIdle

\* the globals after detect_language(t, ...): only detect_aramaic_vocabulary
\* touches one, and only on a str that passed the guard
GlobalsAfter(t) ==
    /\ passages' = passages
    /\ vocabulary' = IF IsDegenerate(t) \/ t.type # "str"
                     THEN vocabulary
                     ELSE vocabulary_after(vocabulary, t.v)

Call_detect_language ==
    /\ pc = "ready"
    /\ result' = detect_language(text, book, chapter, verse)
    /\ GlobalsAfter(text)
    /\ pc' = "done"
    /\ UNCHANGED <<text, book, chapter, verse, history, outcome>>
    /\ UNCHANGED <<parserVars, verifierVars, pageVars>>

Next == Call_detect_language

Spec == Init /\ [][Next]_vars

----------------------------------------------------------------------------
(* One direct call of is_aramaic_passage, on the shipped table. *)

S_1_Kings == <<49, 32, 75, 105, 110, 103, 115>>
PassageBooks ==
    {PyStr(K_daniel), PyStr(S_Daniel), PyStr(K_ezra), PyStr(K_jeremiah),
     PyStr(K_genesis), PyStr(S_ruth), PyStr(S_1_Kings)}

InitPassage ==
    /\ text = None
    /\ book \in PassageBooks
    /\ chapter \in {PyInt(c) : c \in 0..MaxChapter}
    /\ verse \in {PyInt(v) : v \in 0..MaxVerse}
    /\ result = NotCalled
    /\ pc = "ready"
    /\ passages = ARAMAIC_PASSAGES
    /\ vocabulary = ARAMAIC_VOCABULARY
    /\ history = <<>>
    /\ outcome = ""
    /\ ParserIdle
    /\ VerifierIdle
    /\ PagesIdle

Call_is_aramaic_passage ==
    /\ pc = "ready"
    /\ outcome' = is_aramaic_passage(book, chapter, verse)
    /\ pc' = "done"
    /\ UNCHANGED <<text, book, chapter, verse, result, passages, vocabulary,
                   history>>
    /\ UNCHANGED <<parserVars, verifierVars, pageVars>>

NextPassage == Call_is_aramaic_passage

SpecPassage == InitPassage /\ [][NextPassage]_vars

----------------------------------------------------------------------------
(* One direct call of is_aramaic_passage, on a table whose book has one      *)
(* chapter-range entry (chStart, vStart) .. (chEnd, vEnd), start before or  *)
(* at the end.                                                             *)

RangeEntries ==
    {e \in (1..MaxRangeChapter) \X (1..MaxRangeVerse)
           \X (1..MaxRangeChapter) \X (1..MaxRangeVerse) :
        e[1] < e[3] \/ (e[1] = e[3] /\ e[2] <= e[4])}

InitRange ==
    /\ text = None
    /\ book = PyStr(K_daniel)
    /\ chapter \in {PyInt(c) : c \in 1..MaxRangeChapter}
    /\ verse \in {PyInt(v) : v \in 1..MaxRangeVerse}
    /\ result = NotCalled
    /\ pc = "ready"
    /\ passages \in {K_daniel :> [chapters |-> <<e>>, verses |-> {}] :
                        e \in RangeEntries}
    /\ vocabulary = ARAMAIC_VOCABULARY
    /\ history = <<>>
    /\ outcome = ""
    /\ ParserIdle
    /\ VerifierIdle
    /\ PagesIdle

SpecRange == InitRange /\ [][NextPassage]_vars

----------------------------------------------------------------------------
(* A session: up to MaxCalls calls of detect_language in one process, in    *)
(* any order, on inputs that repeat.                                       *)

Args(t, b, c, v) == [text |-> t, book |-> b, chapter |-> c, verse |-> v]

SessionInputs ==
    {Args(PyStr(aramaic_vocab_text), None, None, None),
     Args(PyStr(aramaic_vocab_text), PyStr(S_Daniel), PyInt(2), PyInt(4)),
     Args(PyStr(W_la \o space \o W_hava), None, None, None),
     Args(PyStr(hebrew_text), PyStr(S_ruth), PyInt(2), PyInt(3)),
     Args(PyStr(greek_text \o imperial_aleph), None, None, None)}

InitSession ==
    /\ text = None
    /\ book = None
    /\ chapter = None
    /\ verse = None
    /\ result = NotCalled
    /\ pc = "ready"
    /\ passages = ARAMAIC_PASSAGES
    /\ vocabulary \in VocabularyOrders
    /\ history = <<>>
    /\ outcome = ""
    /\ ParserIdle
    /\ VerifierIdle
    /\ PagesIdle

Session_detect_language ==
    /\ Len(history) < MaxCalls
    /\ \E a \in SessionInputs :
          /\ text' = a.text
          /\ book' = a.book
          /\ chapter' = a.chapter
          /\ verse' = a.verse
          /\ result' = detect_language(a.text, a.book, a.chapter, a.verse)
          /\ GlobalsAfter(a.text)
          /\ history' = Append(history, [args |-> a, result |-> result'])
    /\ pc' = "done"
    /\ UNCHANGED outcome
    /\ UNCHANGED <<parserVars, verifierVars, pageVars>>

NextSession == Session_detect_language

SpecSession == InitSession /\ [][NextSession]_vars

----------------------------------------------------------------------------
(* A scan of parse_verses_from_text: the text is split into lines and the   *)
(* loop takes them one by one.  The text of a run is the lines taken so far *)
(* and the dict of a state is what the function returns for that text.     *)

\* the classifier when nothing calls it
DetectorIdle ==
    /\ text = None
    /\ book = None
    /\ chapter = None
    /\ verse = None
    /\ result = NotCalled
    /\ pc = "ready"
    /\ passages = ARAMAIC_PASSAGES
    /\ vocabulary = ARAMAIC_VOCABULARY
    /\ history = <<>>
    /\ outcome = ""

\* sample lines: book headers, references, Hebrew text, and a line with all
\* three
L_Genesis == <<71, 101, 110, 101, 115, 105, 115>>
L_1_1 == <<49, 58, 49>>
L_1_2 == <<49, 58, 50>>
L_0_5 == <<48, 58, 53>>
L_di_hu == <<1491, 1497, 32, 1492, 1493, 1488>>
L_Exodus == <<69, 120, 111, 100, 117, 115>>
L_Exodus_2_1_la == L_Exodus \o <<32, 50, 58, 49, 32>> \o W_la
LineSamples ==
    {L_Genesis, L_1_1, L_1_2, L_0_5, W_la, L_di_hu, N_bereshit, L_Exodus,
     L_Exodus_2_1_la}

InitParse == DetectorIdle /\ ParserIdle /\ VerifierIdle /\ PagesIdle

\* one iteration of "for line in lines"
ParseLine ==
    /\ Len(lines) < MaxLines
    /\ \E line \in LineSamples :
          LET p == position_after(line, current_book, current_chapter,
                                  current_verse)
              hebrew_in_line == findall(BHS_HEBREW_PATTERN, line)
              key == verse_key(p.book, p.chapter, p.verse)
              joined == JoinSpace(hebrew_in_line)
          IN  /\ lines' = Append(lines, line)
              /\ current_book' = p.book
              /\ current_chapter' = p.chapter
              /\ current_verse' = p.verse
              /\ IF stores_text(hebrew_in_line, p.verse)
                 THEN /\ verses' = verses_after(verses, key, joined)
                      /\ attributed' =
                            Append(attributed, [key |-> key, text |-> joined])
                 ELSE UNCHANGED <<verses, attributed>>
    /\ UNCHANGED <<detectorVars, verifierVars, pageVars>>

NextParse == ParseLine

SpecParse == InitParse /\ [][NextParse]_vars

----------------------------------------------------------------------------
(* One call of find_verse_in_ocr, as the verse loop of verify_ocr_accuracy  *)
(* makes it: the OCR text of the pages, one verified verse, the pattern of *)
(* the script.                                                             *)

\* verified verse texts: empty, pointed, unpointed, two words, with a comma,
\* a lone vowel mark, a blank
V_la_comma_di == <<1500, 1488, 44, 32, 1491, 1497>>
V_qamats == <<1464>>
VerifiedTexts ==
    {<<>>, W_la_pointed, W_la, W_la \o <<32>> \o W_di, V_la_comma_di,
     V_qamats, <<32>>, W_hava}

\* OCR texts: empty, Latin only, unpointed words, a pointed word, the text
\* with a comma, words between Latin noise, one other word, words on two
\* lines
O_latin == <<71, 101, 110, 32, 49>>
O_noise == <<120, 32>> \o W_la \o <<32, 121, 32>> \o W_di \o <<32, 122>>
OcrTexts ==
    {<<>>, O_latin, W_la \o <<32>> \o W_di \o <<32>> \o W_hava,
     W_la_pointed \o <<32>> \o W_di, V_la_comma_di, O_noise, W_elah,
     W_di \o <<10>> \o W_la}

InitVerify ==
    /\ DetectorIdle
    /\ ParserIdle
    /\ ocr_text \in OcrTexts
    /\ verified_text \in VerifiedTexts
    /\ script_pattern \in {OCR_HEBREW_PATTERN, OCR_GREEK_PATTERN}
    /\ verdict = NotVerified
    /\ ReportIdle
    /\ PagesIdle

Call_find_verse_in_ocr ==
    /\ ~verdict.called
    /\ verdict' = find_verse_in_ocr(ocr_text, verified_text, script_pattern)
    /\ UNCHANGED <<ocr_text, verified_text, script_pattern, verified_data,
                   report, verse_loop>>
    /\ UNCHANGED <<detectorVars, parserVars, pageVars>>

NextVerify == Call_find_verse_in_ocr

SpecVerify == InitVerify /\ [][NextVerify]_vars

----------------------------------------------------------------------------
(* A call of one of the three functions: the path is checked, then the     *)
(* loop takes the pages of the range one by one until the range ends.      *)

\* what the OCR engine reads on a page: two Hebrew words, a Greek and a
\* Hebrew word, Latin only, a reference and a Hebrew word
P_greek_hebrew == <<7974, 957, 32>> \o W_la
P_reference == <<49, 58, 49, 32>> \o W_la
PageOutcomes ==
    {RenderFails, OcrFails, Page(W_la \o <<32>> \o W_di),
     Page(P_greek_hebrew), Page(O_latin), Page(P_reference)}

InitPages ==
    /\ DetectorIdle
    /\ ParserIdle
    /\ ocr_text = <<>>
    /\ verified_text = <<>>
    /\ script_pattern \in {OCR_HEBREW_PATTERN, OCR_GREEK_PATTERN}
    /\ verdict = NotVerified
    /\ ReportIdle
    /\ running \in {F_verify, F_scriptures, F_hebrew}
    /\ pdf_exists \in BOOLEAN
    /\ start_page \in 0..MaxPages
    /\ num_pages \in 1..MaxPages
    /\ total_pages \in (IF pdf_exists THEN 1..MaxPages ELSE {0})
    /\ pages_done = <<>>
    /\ results = <<>>
    /\ loop_state = "called"
    /\ ToolsIdle

\* if not os.path.exists(pdf_path): return ...; otherwise the document is
\* opened for its length and the dict results is built
OpenDocument ==
    /\ loop_state = "called"
    /\ results' = IF pdf_exists THEN results_init(running)
                  ELSE on_missing(running)
    /\ loop_state' = IF pdf_exists THEN "looping" ELSE "returned"
    /\ UNCHANGED <<running, pdf_exists, start_page, num_pages, total_pages,
                   pages_done>>
    /\ UNCHANGED <<detectorVars, parserVars, verifierVars, toolVars>>

\* one iteration of "for page_num in range(...)"
TakePage ==
    /\ loop_state = "looping"
    /\ start_page + Len(pages_done)
          < range_stop(start_page, num_pages, total_pages)
    /\ \E page \in PageOutcomes :
          LET page_num == start_page + Len(pages_done)
              st == page_step(running, results, page, page_num,
                              script_pattern)
          IN  /\ pages_done' = Append(pages_done, page)
              /\ results' = st.results
              /\ loop_state' = IF st.escaped THEN "raised" ELSE "looping"
    /\ UNCHANGED <<running, pdf_exists, start_page, num_pages, total_pages>>
    /\ UNCHANGED <<detectorVars, parserVars, verifierVars, toolVars>>

\* the range is exhausted: the document, or the requested number of pages,
\* ends here
EndOfRange ==
    /\ loop_state = "looping"
    /\ start_page + Len(pages_done)
          >= range_stop(start_page, num_pages, total_pages)
    /\ loop_state' = "finished"
    /\ UNCHANGED <<running, pdf_exists, start_page, num_pages, total_pages,
                   pages_done, results>>
    /\ UNCHANGED <<detectorVars, parserVars, verifierVars, toolVars>>

NextPages == OpenDocument \/ TakePage \/ EndOfRange

SpecPages == InitPages /\ [][NextPages]_vars

----------------------------------------------------------------------------
(* The verse loop of verify_ocr_accuracy, after its page loop: the verses  *)
(* of the corpus are checked one by one against all_ocr_text (held in      *)
(* ocr_text), then the average is taken.                                   *)

\* verses of the corpus
MaxCorpus == 21

\* verified texts: two words that the pages hold, a verse whose first word
\* only is on the pages, an empty verse, a word the pages do not hold, a
\* verse of more than 50 characters
V_long == W_la \o <<32>> \o W_malka_pointed \o <<32>> \o W_qodam_pointed
V_verse ==
    W_elah_pointed \o <<32>> \o W_malka_pointed \o <<32>> \o W_qodam_pointed
    \o <<32>> \o W_kean_pointed \o <<32>> \o W_hava_pointed \o <<32>>
    \o W_di_pointed \o <<32>> \o W_la_pointed \o <<32>> \o W_elah_pointed
    \o <<32>> \o W_malka
CorpusTexts == <<W_la \o <<32>> \o W_di, V_long, <<>>, W_kean, V_verse>>

\* a corpus of n verses, genesis-1-1 to genesis-1-n, their texts taken in
\* turn from CorpusTexts, from the one after shift on
Corpus(n, shift) ==
    [i \in 1..n |->
        [verse |-> verse_key(K_genesis, 1, i),
         text |-> CorpusTexts[((i + shift) % Len(CorpusTexts)) + 1]]]

\* all_ocr_text after the page loop: no page read, or " " and the text of
\* each page read
AllOcrTexts ==
    {<<>>,
     <<32>> \o O_latin,
     <<32>> \o W_la \o <<32>> \o W_di,
     <<32>> \o W_la \o <<32>> \o W_di \o <<32>> \o P_greek_hebrew,
     <<32>> \o W_elah \o <<10>> \o W_malka \o <<32, 32>> \o W_la}

InitReport ==
    /\ DetectorIdle
    /\ ParserIdle
    /\ PagesIdle
    /\ ocr_text \in AllOcrTexts
    /\ verified_text = <<>>
    /\ script_pattern \in {OCR_HEBREW_PATTERN, OCR_GREEK_PATTERN}
    /\ verdict = NotVerified
    /\ \E n \in 0..MaxCorpus, shift \in 0..(Len(CorpusTexts) - 1) :
          verified_data = Corpus(n, shift)
    /\ report = report_init
    /\ verse_loop = "checking"

\* the verses the loop takes: list(verified_data.items())[:20]
VersesToCheck ==
    IF Len(verified_data) < CheckLimit THEN Len(verified_data)
    ELSE CheckLimit

\* one iteration of the verse loop
CheckVerse ==
    /\ verse_loop = "checking"
    /\ Len(report.verses_checked) < VersesToCheck
    /\ LET item == verified_data[Len(report.verses_checked) + 1]
           v == find_verse_in_ocr(ocr_text, item.text, script_pattern)
       IN  \E rounded \in round_2(v.similarity) :
              report' = check_verse(report, item, ocr_text, script_pattern,
                                    rounded)
    /\ UNCHANGED <<ocr_text, verified_text, script_pattern, verdict,
                   verified_data, verse_loop>>
    /\ UNCHANGED <<detectorVars, parserVars, pageVars>>

\* after the loop: results['average_accuracy'] = ...; return results
ReturnReport ==
    /\ verse_loop = "checking"
    /\ Len(report.verses_checked) = VersesToCheck
    /\ \E average \in average_accuracy(report.accuracy_scores) :
          report' = report @@ [average_accuracy |-> average]
    /\ verse_loop' = "returned"
    /\ UNCHANGED <<ocr_text, verified_text, script_pattern, verdict,
                   verified_data>>
    /\ UNCHANGED <<detectorVars, parserVars, pageVars>>

NextReport == CheckVerse \/ ReturnReport

SpecReport == InitReport /\ [][NextReport]_vars

----------------------------------------------------------------------------
(* One call of preprocess_image. *)

\* modes of a PIL image: bilevel, greyscale, palette, 32-bit integer (one
\* band each), RGB, RGBA
ImageModes == {"1", "L", "P", "I", "RGB", "RGBA"}

\* the configs of test_ocr_configs, and every choice of the contrast factor
\* (1.0, 1.5, 2.0) and the three flags
ConfigArgs ==
    {configs[i].config : i \in 1..Len(configs)}
    \cup {[OCRConfig EXCEPT !.enhance_contrast = c, !.sharpen = s,
                           !.denoise = d, !.threshold = t] :
             c \in {10, 15, 20}, s \in BOOLEAN, d \in BOOLEAN, t \in BOOLEAN}

InitPreprocess ==
    /\ DetectorIdle
    /\ ParserIdle
    /\ VerifierIdle
    /\ LoopsIdle
    /\ config_results = <<>>
    /\ best_hebrew = NoItem
    /\ best_greek = NoItem
    /\ configs_state = "idle"
    /\ \E m \in ImageModes : img = [mode |-> m, steps |-> <<>>]
    /\ config \in ConfigArgs
    /\ img_processed = NoImage

Call_preprocess_image ==
    /\ img # NoImage
    /\ img_processed = NoImage
    /\ img_processed' = preprocess_image(img, config)
    /\ UNCHANGED <<config_results, best_hebrew, best_greek, configs_state,
                   img, config>>
    /\ UNCHANGED <<running, pdf_exists, start_page, num_pages, total_pages,
                   pages_done, results, loop_state>>
    /\ UNCHANGED <<detectorVars, parserVars, verifierVars>>

NextPreprocess == Call_preprocess_image

SpecPreprocess == InitPreprocess /\ [][NextPreprocess]_vars

----------------------------------------------------------------------------
(* One call of test_ocr_configs on a page of an existing document: the     *)
(* configs are tried in order, then the best are selected.                 *)

InitConfigs ==
    /\ DetectorIdle
    /\ ParserIdle
    /\ VerifierIdle
    /\ LoopsIdle
    /\ config_results = <<>>
    /\ best_hebrew = NoItem
    /\ best_greek = NoItem
    /\ configs_state = "testing"
    /\ img = NoImage
    /\ config = OCRConfig
    /\ img_processed = NoImage

\* one iteration of "for name, config in configs.items()": the page is
\* rendered and read under the config; an error of the renderer is not
\* caught
TestConfig ==
    /\ configs_state = "testing"
    /\ Len(config_results) < Len(configs)
    /\ \E page \in PageOutcomes :
          LET name == configs[Len(config_results) + 1].name
          IN  IF page.render = "raises"
              THEN /\ configs_state' = "raised"
                   /\ UNCHANGED config_results
              ELSE /\ config_results'
                        = Append(config_results, config_result(name, page))
                   /\ UNCHANGED configs_state
    /\ UNCHANGED <<best_hebrew, best_greek, img, config, img_processed>>
    /\ UNCHANGED <<running, pdf_exists, start_page, num_pages, total_pages,
                   pages_done, results, loop_state>>
    /\ UNCHANGED <<detectorVars, parserVars, verifierVars>>

\* best_hebrew = max(...); best_greek = max(...); return results
SelectBest ==
    /\ configs_state = "testing"
    /\ Len(config_results) = Len(configs)
    /\ best_hebrew' = max_item(config_results, "hebrew_count")
    /\ best_greek' = max_item(config_results, "greek_count")
    /\ configs_state' = "selected"
    /\ UNCHANGED <<config_results, img, config, img_processed>>
    /\ UNCHANGED <<running, pdf_exists, start_page, num_pages, total_pages,
                   pages_done, results, loop_state>>
    /\ UNCHANGED <<detectorVars, parserVars, verifierVars>>

NextConfigs == TestConfig \/ SelectBest

SpecConfigs == InitConfigs /\ [][NextConfigs]_vars

----------------------------------------------------------------------------
(* What the properties speak about, stated without the classifier. *)

\* the number of maximal runs of class characters in s
RunCount(pattern, s) ==
    Cardinality({i \in 1..Len(s) :
                    /\ InClass(pattern, s[i])
                    /\ (i = 1 \/ ~InClass(pattern, s[i - 1]))})

\* <<i, j>> is a maximal run of class characters of s
IsRun(pattern, s, i, j) ==
    /\ i <= j
    /\ \A k \in i..j : InClass(pattern, s[k])
    /\ (i = 1 \/ ~InClass(pattern, s[i - 1]))
    /\ (j = Len(s) \/ ~InClass(pattern, s[j + 1]))

\* the maximal runs of s, in text order
RunsOf(pattern, s) ==
    LET runs == {r \in (1..Len(s)) \X (1..Len(s)) :
                    IsRun(pattern, s, r[1], r[2])}
        nth(k) == CHOOSE r \in runs :
                     Cardinality({q \in runs : q[1] < r[1]}) = k - 1
    IN  [k \in 1..Cardinality(runs) |-> SubSeq(s, nth(k)[1], nth(k)[2])]

\* the distinct vocabulary-table words that occur in s
VocabWordsIn(s) ==
    {ARAMAIC_VOCABULARY[k] : k \in {n \in DOMAIN ARAMAIC_VOCABULARY :
                                       Contains(ARAMAIC_VOCABULARY[n], s)}}

\* The documented Aramaic passages (module docstring): Daniel 2:4b-7:28,
\* Ezra 4:8-6:18 and 7:12-26, Jeremiah 10:11, Genesis 31:47.
VerseLE(c1, v1, c2, v2) == c1 < c2 \/ (c1 = c2 /\ v1 <= v2)

DocumentedAramaic(name, c, v) ==
    \/ name = K_daniel /\ VerseLE(2, 4, c, v) /\ VerseLE(c, v, 7, 28)
    \/ name = K_ezra /\ VerseLE(4, 8, c, v) /\ VerseLE(c, v, 6, 18)
    \/ name = K_ezra /\ c = 7 /\ 12 <= v /\ v <= 26
    \/ name = K_jeremiah /\ c = 10 /\ v = 11
    \/ name = K_genesis /\ c = 31 /\ v = 47

\* all three hints are given and name a documented Aramaic verse
HintsNameAramaicPassage ==
    /\ book.type = "str"
    /\ chapter.type = "int"
    /\ verse.type = "int"
    /\ DocumentedAramaic(Lower(book.v), chapter.v[1], verse.v[1])

\* the book hint is a str or absent
ValidHints == book.type \in {"str", "NoneType"}

\* the call was made on a non-empty str
CalledOnText == pc = "done" /\ text.type = "str" /\ text.v # <<>>

IsOne(f) == f.num = f.den /\ f.den > 0

----------------------------------------------------------------------------
(* Properties of detect_language, under Spec. *)

\* C1: when the hints name a known Aramaic passage and the text has at least
\* one Hebrew run, the call returns language aramaic, confidence exactly
\* 0.95 and matches equal to the Hebrew runs, whatever else the text holds.
C1_KnownPassageWins ==
    (CalledOnText /\ HintsNameAramaicPassage
        /\ RunCount(HEBREW_PATTERN, text.v) > 0)
    => /\ result.raised = ""
       /\ result.language = "aramaic"
       /\ result.confidence.num * 100 = 95 * result.confidence.den
       /\ result.matches = RunsOf(HEBREW_PATTERN, text.v)

\* C1 witness: a known passage whose text also has an Imperial-Aramaic run
\* (rule 2 would apply) or two vocabulary words (rule 3 would apply).
C1_Witness ==
    /\ CalledOnText /\ HintsNameAramaicPassage
    /\ RunCount(HEBREW_PATTERN, text.v) > 0
    /\ RunCount(IMPERIAL_ARAMAIC_PATTERN, text.v) > 0
    /\ Cardinality(VocabWordsIn(text.v)) >= 2
    /\ result.language = "aramaic"
    /\ result.confidence = Float(95, 100)

\* the precondition of C2: only Hebrew script, no hint naming a passage
OnlyHebrewNoHint ==
    /\ CalledOnText /\ ValidHints /\ ~HintsNameAramaicPassage
    /\ RunCount(HEBREW_PATTERN, text.v) > 0
    /\ RunCount(GREEK_PATTERN, text.v) = 0
    /\ RunCount(IMPERIAL_ARAMAIC_PATTERN, text.v) = 0

\* C2 as stated: every text with only Hebrew-block script characters,
\* classified without a hint naming a known passage, is hebrew with
\* confidence 1.0.
C2_Original ==
    OnlyHebrewNoHint
    => /\ result.raised = ""
       /\ result.language = "hebrew"
       /\ IsOne(result.confidence)

\* C2 amended: ... and containing at most one vocabulary-table word, is
\* hebrew with confidence 1.0.
C2_HebrewOnly ==
    (OnlyHebrewNoHint /\ Cardinality(VocabWordsIn(text.v)) <= 1)
    => /\ result.raised = ""
       /\ result.language = "hebrew"
       /\ IsOne(result.confidence)

\* C2 witness: a Hebrew text with exactly one vocabulary word, found hebrew
C2_Witness ==
    /\ OnlyHebrewNoHint
    /\ Cardinality(VocabWordsIn(text.v)) = 1
    /\ result.language = "hebrew"
    /\ IsOne(result.confidence)

\* C5: a text with exactly 3 distinct vocabulary words, a Hebrew run, no
\* Imperial-Aramaic codepoint and no known-passage hint has vocabulary
\* confidence 1.0 and is classified aramaic with confidence 1.0.
C5_ThreeWords ==
    (CalledOnText /\ ValidHints /\ ~HintsNameAramaicPassage
        /\ Cardinality(VocabWordsIn(text.v)) = 3
        /\ RunCount(HEBREW_PATTERN, text.v) > 0
        /\ RunCount(IMPERIAL_ARAMAIC_PATTERN, text.v) = 0)
    => /\ result.raised = ""
       /\ IsOne(detect_aramaic_vocabulary(text.v).confidence)
       /\ Len(result.aramaic_words) = 3
       /\ result.language = "aramaic"
       /\ IsOne(result.confidence)

\* C5 witness: three words, also beside Greek runs
C5_Witness ==
    /\ CalledOnText /\ ValidHints /\ ~HintsNameAramaicPassage
    /\ Cardinality(VocabWordsIn(text.v)) = 3
    /\ RunCount(GREEK_PATTERN, text.v) > 0
    /\ RunCount(IMPERIAL_ARAMAIC_PATTERN, text.v) = 0
    /\ result.language = "aramaic"
    /\ IsOne(result.confidence)

\* C6: for an empty text or a text that is not a str, whatever the hints,
\* the call does not raise and returns the unknown result with every
\* counter zero.
C6_Degenerate ==
    (pc = "done" /\ (text.type # "str" \/ text.v = <<>>))
    => /\ result.raised = ""
       /\ result.language = "unknown"
       /\ result.confidence.num = 0
       /\ result.matches = <<>>
       /\ result.hebrew_count = 0
       /\ result.greek_count = 0
       /\ result.aramaic_count = 0
       /\ result.aramaic_words = <<>>
       /\ result.is_known_aramaic_passage = FALSE

\* C6 witness: a truthy non-str text with hints that make the passage lookup
\* raise on a real text
C6_Witness ==
    /\ pc = "done"
    /\ text = PyInt(7)
    /\ book = PyInt(5) /\ Truthy(chapter) /\ Truthy(verse)
    /\ result.language = "unknown"

\* C8: the returned confidence lies in [0, 1], for every text and hints; in
\* particular the ratio of rule 2 never exceeds 1.
C8_ConfidenceRange ==
    (pc = "done" /\ result.raised = "")
    => /\ result.confidence.den > 0
       /\ 0 <= result.confidence.num
       /\ result.confidence.num <= result.confidence.den

\* C8 witness: rule 2 on a text with Hebrew and Imperial-Aramaic runs
C8_Witness ==
    /\ CalledOnText /\ result.raised = ""
    /\ ~result.is_known_aramaic_passage
    /\ RunCount(IMPERIAL_ARAMAIC_PATTERN, text.v) > 0
    /\ RunCount(HEBREW_PATTERN, text.v) > 0
    /\ result.language = "aramaic"

\* C9 as stated: hebrew_count, greek_count and aramaic_count are the numbers
\* of Hebrew, Greek and Imperial-Aramaic runs of the text.
C9_Original ==
    (CalledOnText /\ result.raised = "")
    => /\ result.hebrew_count = RunCount(HEBREW_PATTERN, text.v)
       /\ result.greek_count = RunCount(GREEK_PATTERN, text.v)
       /\ result.aramaic_count = RunCount(IMPERIAL_ARAMAIC_PATTERN, text.v)

\* C9 amended: hebrew_count and greek_count are the run counts; aramaic_count
\* follows the decision: 0 unless the language is aramaic, hebrew_count when
\* rule 1 decided, hebrew_count plus the Imperial-Aramaic runs otherwise.
C9_Counters ==
    (CalledOnText /\ result.raised = "")
    => LET h == RunCount(HEBREW_PATTERN, text.v)
           i == RunCount(IMPERIAL_ARAMAIC_PATTERN, text.v)
       IN  /\ result.hebrew_count = h
           /\ result.greek_count = RunCount(GREEK_PATTERN, text.v)
           /\ result.aramaic_count =
                 IF result.language # "aramaic" THEN 0
                 ELSE IF result.is_known_aramaic_passage /\ h > 0 THEN h
                 ELSE h + i

\* C9 witness: a run of several Hebrew characters beside an Imperial-Aramaic
\* run, under a known passage: aramaic_count is the Hebrew count
C9_Witness ==
    /\ CalledOnText /\ result.raised = ""
    /\ result.is_known_aramaic_passage
    /\ RunCount(IMPERIAL_ARAMAIC_PATTERN, text.v) = 1
    /\ RunCount(HEBREW_PATTERN, text.v) = 3
    /\ result.aramaic_count = 3

\* C10: when one of book, chapter, verse is missing, the call returns
\* is_known_aramaic_passage false and rule 1 does not fire: the text is
\* aramaic only on Imperial-Aramaic or vocabulary evidence.
C10_MissingHint ==
    (CalledOnText /\ (book = None \/ chapter = None \/ verse = None))
    => /\ result.raised = ""
       /\ result.is_known_aramaic_passage = FALSE
       /\ result.language = "aramaic"
          => \/ RunCount(IMPERIAL_ARAMAIC_PATTERN, text.v) > 0
             \/ Cardinality(VocabWordsIn(text.v)) >= 2

\* C10 witness: Daniel 2 without a verse, on Hebrew text: found hebrew
C10_Witness ==
    /\ CalledOnText
    /\ book = PyStr(S_Daniel) /\ chapter = PyInt(2) /\ verse = None
    /\ result.language = "hebrew"
    /\ result.is_known_aramaic_passage = FALSE

----------------------------------------------------------------------------
(* Properties of is_aramaic_passage. *)

\* the direct call was made for this book (any letter case), chapter, verse
At(name, c, v) ==
    /\ pc = "done"
    /\ Lower(book.v) = name
    /\ chapter = PyInt(c)
    /\ verse = PyInt(v)

\* C3 as stated (SpecRange): for a chapter-range entry with chStart <= chEnd,
\* chStart = chEnd included, (chapter, verse) is reported inside exactly when
\* (chStart, vStart) <= (chapter, verse) <= (chEnd, vEnd).
C3_LexicographicRange ==
    pc = "done"
    => LET e == passages[K_daniel].chapters[1]
           c == chapter.v[1]
           v == verse.v[1]
       IN  (outcome = "True")
           <=> (VerseLE(e[1], e[2], c, v) /\ VerseLE(c, v, e[3], e[4]))

\* C4 (SpecPassage): with the shipped table daniel 2:4 and 7:28 are Aramaic
\* and 2:3 and 8:1 are not; ezra 4:8 is and 4:7 is not; genesis 31:47 is and
\* 31:46 is not; a book absent from the table never is.
C4_ShippedTable ==
    /\ (At(K_daniel, 2, 4) \/ At(K_daniel, 7, 28)
        \/ At(K_ezra, 4, 8) \/ At(K_genesis, 31, 47)) => outcome = "True"
    /\ (At(K_daniel, 2, 3) \/ At(K_daniel, 8, 1)
        \/ At(K_ezra, 4, 7) \/ At(K_genesis, 31, 46)) => outcome = "False"
    /\ (pc = "done"
        /\ Lower(book.v) \notin {K_daniel, K_ezra, K_jeremiah, K_genesis})
       => outcome = "False"

\* C4 witness: Daniel 2:4, the first verse of the range, asked with a
\* capital letter
C4_Witness ==
    /\ At(K_daniel, 2, 4)
    /\ book = PyStr(S_Daniel)
    /\ outcome = "True"

----------------------------------------------------------------------------
(* Properties of a session. *)

\* calls with equal arguments returned equal results, field by field
SameArgsSameResult ==
    \A i, j \in DOMAIN history :
        history[i].args = history[j].args
        => history[i].result = history[j].result

----------------------------------------------------------------------------
(* The line scanner: what the properties speak about, stated on the lines.  *)

\* the book a header line names (<<>>: the line is no book name)
HeaderBook(line) ==
    LET named == {i \in 1..Len(book_patterns) :
                     Lower(line) \in book_patterns[i].names}
    IN  IF named = {} THEN <<>>
        ELSE book_patterns[CHOOSE i \in named : TRUE].book_id

\* a line holding only a reference c:v
IsReferenceLine(line) ==
    \E k \in 2..(Len(line) - 1) :
        /\ line[k] = 58
        /\ \A i \in 1..Len(line) : i # k => IsDigit(line[i])

ReferenceChapter(line) ==
    int(SubSeq(line, 1, (CHOOSE k \in 1..Len(line) : line[k] = 58) - 1))
ReferenceVerse(line) ==
    int(SubSeq(line, (CHOOSE k \in 1..Len(line) : line[k] = 58) + 1,
               Len(line)))

\* a line holding only Hebrew words, one space between two words
IsScriptLine(line) ==
    /\ line # <<>>
    /\ \A i \in 1..Len(line) : line[i] = 32 \/ line[i] \in 1424..1535
    /\ line[1] # 32 /\ line[Len(line)] # 32
    /\ \A i \in 1..(Len(line) - 1) : ~(line[i] = 32 /\ line[i + 1] = 32)

\* a book header followed by pairs (reference with verse >= 1, script text),
\* the references pairwise distinct
PairCount(ls) == (Len(ls) - 1) \div 2
IsHeaderAndPairs(ls) ==
    /\ Len(ls) >= 3 /\ Len(ls) % 2 = 1
    /\ HeaderBook(ls[1]) # <<>>
    /\ \A k \in 1..PairCount(ls) :
          /\ IsReferenceLine(ls[2 * k])
          /\ ReferenceVerse(ls[2 * k]) >= 1
          /\ IsScriptLine(ls[2 * k + 1])
    /\ \A j, k \in 1..PairCount(ls) :
          j # k =>
            <<ReferenceChapter(ls[2 * j]), ReferenceVerse(ls[2 * j])>>
              # <<ReferenceChapter(ls[2 * k]), ReferenceVerse(ls[2 * k])>>

\* '<book>-<c>-<v>' -> the text of the line after the reference
ExpectedItems(ls) ==
    {[key |-> HeaderBook(ls[1]) \o <<45>>
                \o Decimal(ReferenceChapter(ls[2 * k])) \o <<45>>
                \o Decimal(ReferenceVerse(ls[2 * k])),
      value |-> ls[2 * k + 1]] : k \in 1..PairCount(ls)}

Items(d) == {d[i] : i \in 1..Len(d)}

\* C11: for a book-header line followed by pairs (reference c:v with v >= 1,
\* then script text), references pairwise distinct, parse_verses_from_text
\* returns exactly one key '<book>-<c>-<v>' per reference, whose value is the
\* text of the line after that reference, and nothing else.
C11_OneKeyPerReference ==
    IsHeaderAndPairs(lines) =>
        /\ Items(verses) = ExpectedItems(lines)
        /\ Len(verses) = PairCount(lines)

\* the line a step has just scanned
LastLine == lines[Len(lines)]

\* the line holds one of the book names, in any letter case
HoldsBookName(line) ==
    \E i \in 1..Len(book_patterns) :
        \E n \in book_patterns[i].names : Contains(n, Lower(line))

\* the line holds digits, a colon, digits
HoldsReference(line) ==
    \E k \in 2..(Len(line) - 1) :
        line[k] = 58 /\ IsDigit(line[k - 1]) /\ IsDigit(line[k + 1])

\* C12 as stated: no line ever decreases current_chapter or current_verse;
\* after every line each is greater than or equal to its value before.
C12_Original ==
    [][/\ current_chapter' >= current_chapter
       /\ current_verse' >= current_verse]_vars

\* C12: a line that holds neither a book name nor a chapter:verse pattern
\* leaves current_chapter and current_verse as they were; a line that holds
\* a book name and no chapter:verse pattern resets them to 1 and 0.
C12_PlainLineKeeps ==
    [][/\ (~HoldsBookName(LastLine') /\ ~HoldsReference(LastLine'))
            => (/\ current_chapter' = current_chapter
                /\ current_verse' = current_verse)
       /\ (HoldsBookName(LastLine') /\ ~HoldsReference(LastLine'))
            => (current_chapter' = 1 /\ current_verse' = 0)]_vars

\* C12 witness: a text line scanned inside verse 1:2, and stored there
C12_Witness ==
    /\ Len(lines) >= 2
    /\ ~HoldsBookName(LastLine) /\ ~HoldsReference(LastLine)
    /\ current_chapter = 1 /\ current_verse = 2
    /\ verses # <<>>

\* the fields of a key '<book>-<chapter>-<verse>': the parts between hyphens
RECURSIVE SplitHyphen(_)
SplitHyphen(s) ==
    IF \A i \in 1..Len(s) : s[i] # 45 THEN <<s>>
    ELSE LET k == CHOOSE i \in 1..Len(s) :
                     s[i] = 45 /\ \A j \in 1..(i - 1) : s[j] # 45
         IN  <<SubSeq(s, 1, k - 1)>> \o SplitHyphen(SubSeq(s, k + 1, Len(s)))

IsNumeral(s) == s # <<>> /\ \A i \in 1..Len(s) : IsDigit(s[i])

\* a key that denotes a VerseKey: a book id, a chapter >= 1, a verse >= 1
IsValidVerseKey(key) ==
    LET f == SplitHyphen(key)
    IN  /\ Len(f) = 3
        /\ \E i \in 1..Len(book_patterns) : f[1] = book_patterns[i].book_id
        /\ IsNumeral(f[2]) /\ int(f[2]) >= 1
        /\ IsNumeral(f[3]) /\ int(f[3]) >= 1

\* C13: every key of the map returned by parse_verses_from_text denotes a
\* valid VerseKey, chapter >= 1 and verse >= 1, whatever numbers the
\* chapter:verse patterns of the input carry.
C13_ValidKeys ==
    \A i \in 1..Len(verses) : IsValidVerseKey(verses[i].key)

\* the texts stored under a key so far, in document order
TextsOf(key) ==
    LET hits == SelectSeq(attributed, LAMBDA a : a.key = key)
    IN  [i \in 1..Len(hits) |-> hits[i].text]

IsPrefix(s, t) == Len(s) <= Len(t) /\ SubSeq(t, 1, Len(s)) = s

\* each key occurs once, and holds its texts joined by single spaces
MergedInOrder ==
    /\ \A i, j \in 1..Len(verses) : i # j => verses[i].key # verses[j].key
    /\ \A i \in 1..Len(verses) :
          verses[i].value = JoinSpace(TextsOf(verses[i].key))
    /\ \A k \in 1..Len(attributed) :
          \E i \in 1..Len(verses) : verses[i].key = attributed[k].key

\* no step drops an entry or rewrites what it held
EntriesOnlyGrow ==
    /\ Len(verses') >= Len(verses)
    /\ \A i \in 1..Len(verses) :
          /\ verses'[i].key = verses[i].key
          /\ IsPrefix(verses[i].value, verses'[i].value)

\* C14: when several lines attribute text to the same key, the entry is
\* never overwritten or duplicated: its value is the texts of those lines in
\* document order joined by a single space, each key occurs once, and at
\* every step the previous value of every entry is a prefix of the new one.
C14_AppendInOrder == []MergedInOrder /\ [][EntriesOnlyGrow]_vars

\* C14 witness: two lines with different texts stored under one key
C14_Witness ==
    \E i \in 1..Len(verses) :
        /\ Len(TextsOf(verses[i].key)) >= 2
        /\ verses[i].value = W_la \o <<32>> \o L_di_hu

----------------------------------------------------------------------------
(* The verifier: what the properties speak about.                          *)

SameFloat(a, b) == a.num * b.den = b.num * a.den

\* the call looks for a Hebrew verse with the Hebrew pattern
LooksForHebrew == verdict.called /\ script_pattern = OCR_HEBREW_PATTERN

\* the target-script text extracted from the OCR output, space-joined
ExtractedOcr == JoinSpace(findall(script_pattern, ocr_text))

FoundWithFullSimilarity ==
    verdict.found /\ SameFloat(verdict.similarity, Float(1, 1))
NotFoundWithZeroSimilarity ==
    ~verdict.found /\ SameFloat(verdict.similarity, Float(0, 1))

\* C15: for every OCR text that contains the expected verse text verbatim,
\* find_verse_in_ocr returns found = true and similarity = 1.0.
C15_VerbatimFound ==
    (LooksForHebrew /\ Contains(verified_text, ocr_text))
        => FoundWithFullSimilarity

\* C16: whenever the normalized expected text is a literal substring of the
\* normalized extracted OCR text, find_verse_in_ocr returns found = true and
\* similarity = 1.0, also when the two differ before normalization.
C16_NormalizedSubstring ==
    (/\ LooksForHebrew
     /\ Contains(normalize_text(verified_text), normalize_text(ExtractedOcr)))
        => FoundWithFullSimilarity

\* C17: for OCR output that is empty or holds no character of the target
\* script, and any non-empty expected text, find_verse_in_ocr returns
\* found = false and similarity = 0.0.
C17_EmptyOcr ==
    (/\ verdict.called
     /\ verified_text # <<>>
     /\ \A i \in 1..Len(ocr_text) : ~InClass(script_pattern, ocr_text[i]))
        => NotFoundWithZeroSimilarity

\* C17 witness: a word looked for in empty OCR output
C17_Witness ==
    /\ verdict.called
    /\ ocr_text = <<>>
    /\ verified_text = W_la_pointed
    /\ ~verdict.found

\* C18: for an empty expected text and any OCR output, find_verse_in_ocr
\* returns found = false and similarity = 0.0.
C18_EmptyExpected ==
    (verdict.called /\ verified_text = <<>>) => NotFoundWithZeroSimilarity

\* the expected text is not a literal substring of the extracted OCR text
NotLiteralSubstring ==
    verdict.called /\ ~Contains(verified_text, ExtractedOcr)

HasToken(s) == \E i \in 1..Len(s) : ~IsSpace(s[i])

\* the first whitespace-separated token of the expected text occurs in the
\* extracted OCR text
FirstTokenOccurs ==
    HasToken(verified_text) /\ Contains(split(verified_text)[1], ExtractedOcr)

\* found follows the first token, else the threshold
FoundAsDecided ==
    IF FirstTokenOccurs THEN verdict.found
    ELSE verdict.found <=> FloatGT(verdict.similarity, Float(1, 2))

InUnitInterval(f) ==
    /\ f.den > 0
    /\ 0 <= f.num
    /\ f.num <= f.den

NormalizedRatio ==
    ratio(normalize_text(verified_text), normalize_text(ExtractedOcr))

\* C19 as stated: when the expected text is not a literal substring of the
\* extracted OCR text, found is true if the first token of the expected text
\* occurs in the extracted text, else exactly when similarity > 0.5; in both
\* cases similarity is the ratio of the two normalized strings, in [0, 1].
C19_Original ==
    NotLiteralSubstring =>
        /\ FoundAsDecided
        /\ SameFloat(verdict.similarity, NormalizedRatio)
        /\ InUnitInterval(verdict.similarity)

\* C19: when the expected text is not a literal substring of the extracted
\* OCR text, found is true if the first token of the expected text occurs in
\* the extracted text, else exactly when similarity > 0.5; similarity lies in
\* [0, 1] and is the ratio of the two normalized strings, except that it is
\* 0.0 when the extracted OCR text is empty or the expected text has no
\* token.
C19_FirstTokenOrThreshold ==
    NotLiteralSubstring =>
        /\ FoundAsDecided
        /\ SameFloat(verdict.similarity,
                     IF ExtractedOcr = <<>> \/ ~HasToken(verified_text)
                     THEN Float(0, 1)
                     ELSE NormalizedRatio)
        /\ InUnitInterval(verdict.similarity)

\* C19 witness: the first token occurs and the verse is found although the
\* similarity is not above 0.5
C19_Witness ==
    /\ NotLiteralSubstring
    /\ FirstTokenOccurs
    /\ ~FloatGT(verdict.similarity, Float(1, 2))
    /\ FloatGT(verdict.similarity, Float(0, 1))
    /\ verdict.found

----------------------------------------------------------------------------
(* The page loops: what the properties speak about.                        *)

\* the counters of a results dict (for extract_hebrew_ocr, which keeps no
\* counter, the number of its entries)
Counters(f, r) ==
    CASE f = F_verify -> <<r.pages_checked, r.total_ocr_segments>>
      [] f = F_scriptures ->
            <<r.pages_processed, r.total_hebrew, r.total_greek>>
      [] f = F_hebrew -> <<Len(r.pages)>>

\* the results of a run of the loop of f over the given pages
RECURSIVE RunOver(_, _, _)
RunOver(f, pages, script) ==
    IF pages = <<>> THEN results_init(f)
    ELSE page_step(f, RunOver(f, SubSeq(pages, 1, Len(pages) - 1), script),
                   pages[Len(pages)], Len(pages) - 1, script).results

\* the pages taken so far without those that failed to render
RemainingPages == SelectSeq(pages_done, LAMBDA pg : pg.render = "ok")

\* no exception has left the loop, and the counters are those of a run
\* over the pages that rendered
FailedPagesLeaveNoTrace ==
    /\ loop_state # "raised"
    /\ loop_state \in {"looping", "finished"}
         => Counters(running, results)
              = Counters(running,
                         RunOver(running, RemainingPages, script_pattern))

\* a page that fails to render changes nothing and the loop goes on
RenderFailureSkipsPage ==
    (/\ pages_done' # pages_done
     /\ pages_done'[Len(pages_done')].render = "raises")
        => (results' = results /\ loop_state' = "looping")

\* C20: in the page loops of verify_ocr_accuracy and process_pdf, when
\* rendering a page raises, the run is not aborted: that page leaves
\* pages_checked / pages_processed, the segment totals and the per-page
\* entries unchanged, later pages are still processed, and the final
\* counters equal those of a run over the remaining pages alone.
C20_RenderFailureSkipped ==
    []FailedPagesLeaveNoTrace /\ [][RenderFailureSkipsPage]_vars

\* C20 witness: a loop that finished after a page failed to render and a
\* later page was read and counted
C20_Witness ==
    /\ loop_state = "finished"
    /\ Len(pages_done) = 3
    /\ pages_done[1].render = "ok"
    /\ pages_done[2].render = "raises"
    /\ pages_done[3] = Page(W_la \o <<32>> \o W_di)
    /\ Counters(running, results)[1] = 2

----------------------------------------------------------------------------
(* More properties of detect_language, under Spec. *)

\* C27: whenever the text has a Hebrew run, detect_language never returns
\* greek, however many Greek runs there are; a hebrew result has confidence
\* hebrew_count / (hebrew_count + greek_count); greek is returned only when
\* there is no Hebrew run, no Imperial-Aramaic run and a Greek run, and its
\* confidence is then 1.0.
C27_HebrewBeforeGreek ==
    (CalledOnText /\ result.raised = "") =>
        LET h == RunCount(HEBREW_PATTERN, text.v)
            g == RunCount(GREEK_PATTERN, text.v)
            a == RunCount(IMPERIAL_ARAMAIC_PATTERN, text.v)
        IN  /\ h > 0 => result.language # "greek"
            /\ result.language = "hebrew"
                 => SameFloat(result.confidence, Float(h, h + g))
            /\ result.language = "greek"
                 => (h = 0 /\ a = 0 /\ g > 0 /\ IsOne(result.confidence))

\* C27 witness: a text with more Greek runs than Hebrew runs, returned as
\* hebrew with a confidence below one half
C27_Witness ==
    /\ CalledOnText /\ result.raised = ""
    /\ result.language = "hebrew"
    /\ RunCount(GREEK_PATTERN, text.v) > RunCount(HEBREW_PATTERN, text.v)
    /\ FloatGT(Float(1, 2), result.confidence)

----------------------------------------------------------------------------
(* More properties of the line scanner, under SpecParse. *)

\* the book a line names (a line of the samples names at most one)
NamedBook(line) ==
    book_patterns[CHOOSE i \in 1..Len(book_patterns) :
                     \E n \in book_patterns[i].names :
                         Contains(n, Lower(line))].book_id

\* the last line of ls that holds a book name (0: none)
LastHeader(ls) ==
    LET hs == {i \in 1..Len(ls) : HoldsBookName(ls[i])}
    IN  IF hs = {} THEN 0 ELSE CHOOSE i \in hs : \A j \in hs : j <= i

\* the book of the most recent header, the default book before any header
BookInForce(ls) ==
    IF LastHeader(ls) = 0 THEN K_genesis ELSE NamedBook(ls[LastHeader(ls)])

\* a reference has been seen since the most recent header (its line
\* included) or, before any header, since the start
ReferenceInForce(ls) ==
    \E i \in 1..Len(ls) : i >= LastHeader(ls) /\ HoldsReference(ls[i])

\* the scanner before its first line
StartsAtDefault ==
    lines = <<>> =>
        /\ current_book = K_genesis
        /\ current_chapter = 1
        /\ current_verse = 0
        /\ verses = <<>>

\* what one line does with a book name and with its text
HeaderThenRest ==
    /\ HoldsBookName(LastLine')
         => /\ current_book' = NamedBook(LastLine')
            /\ IF HoldsReference(LastLine')
               THEN /\ current_chapter' = verse_pattern_search(LastLine').group1
                    /\ current_verse' = verse_pattern_search(LastLine').group2
               ELSE current_chapter' = 1 /\ current_verse' = 0
    /\ ~ReferenceInForce(lines') => verses' = verses
    /\ attributed' # attributed
         => SplitHyphen(attributed'[Len(attributed')].key)[1]
              = BookInForce(lines')

\* C28: the scan starts at (default book, chapter 1, verse 0); a line with a
\* book name sets current_book and resets chapter to 1 and verse to 0 before
\* the rest of the line is examined; so text before the first reference, and
\* between a book header and the next reference, goes to no key, and the
\* book of every key is that of the most recent header at or before the
\* line that stored it.
C28_HeaderResets == []StartsAtDefault /\ [][HeaderThenRest]_vars

\* C28 witness: text before the first reference and text after a header
\* dropped, then a line with header, reference and text stored under the
\* book of the header
C28_Witness ==
    /\ lines = <<W_la, L_Exodus, L_di_hu, L_Exodus_2_1_la>>
    /\ Len(verses) = 1
    /\ verses[1].key = K_exodus \o <<45, 50, 45, 49>>
    /\ verses[1].value = W_la

----------------------------------------------------------------------------
(* More properties of the page loops, under SpecPages. *)

\* the page the loop has just taken
PageTaken == pages_done'[Len(pages_done')]

\* a page that renders but on which the OCR engine raises changes nothing
\* and the loop goes on
OcrFailureSkipsPage ==
    (/\ pages_done' # pages_done
     /\ PageTaken.render = "ok"
     /\ PageTaken.ocr = "raises")
        => (results' = results /\ loop_state' = "looping")

\* C21: when the OCR engine throws on a page, that page is handled exactly
\* like a page that failed to render: it is skipped and excluded from
\* pages_checked / pages_processed and from the segment aggregates, and the
\* other pages are unaffected.
C21_OcrFailureSkipped == [][OcrFailureSkipsPage]_vars
\* the results of a run of the loop of f over the given pages, the first of
\* them page number start
RECURSIVE RunFrom(_, _, _, _)
RunFrom(f, pages, start, script) ==
    IF pages = <<>> THEN results_init(f)
    ELSE page_step(f, RunFrom(f, SubSeq(pages, 1, Len(pages) - 1), start,
                              script),
                   pages[Len(pages)], start + Len(pages) - 1, script).results

\* what a caller can tell from the returned dict: all_ocr_text is a local of
\* verify_ocr_accuracy, and the verse lists are computed from its segments
\* of the script
Report(f, r, script) ==
    IF f = F_verify
    THEN [pages_checked |-> r.pages_checked,
          total_ocr_segments |-> r.total_ocr_segments,
          segments_checked |-> findall(script, r.all_ocr_text)]
    ELSE r

\* the pages taken, with page i read as Latin text only
WithBlankPage(i) == [pages_done EXCEPT ![i] = Page(O_latin)]

PageFailed(i) ==
    pages_done[i].render = "raises" \/ pages_done[i].ocr = "raises"

\* C22: no exception leaves a per-page unit of work, and every page failure
\* shows in the returned report: the report of a run in which a page
\* failed differs from the report of the same run with that page read
\* without error and without text of the target script.
C22_FailuresRecorded ==
    /\ loop_state # "raised"
    /\ loop_state = "finished" =>
          \A i \in 1..Len(pages_done) :
              PageFailed(i) =>
                  Report(running, results, script_pattern)
                    # Report(running,
                             RunFrom(running, WithBlankPage(i), start_page,
                                     script_pattern),
                             script_pattern)
\* the returned dict holds no page entry, no counter and no accuracy field
NoPartialReport ==
    IF running = F_hebrew THEN results.pages = <<>>
    ELSE DOMAIN results \subseteq {"error"}

\* C23: when the source document does not exist, verify_ocr_accuracy and
\* process_pdf return before any page is rendered or any verse is checked,
\* and what they return holds no page entries, no counters and no accuracy
\* fields: only an error marker, or an empty dict.
C23_MissingDocumentAborts ==
    ~pdf_exists =>
        /\ pages_done = <<>>
        /\ loop_state \in {"called", "returned"}
        /\ loop_state = "returned" => NoPartialReport

\* C23 witness: verify_ocr_accuracy has returned the error marker for a
\* path that does not exist
C23_Witness ==
    /\ loop_state = "returned"
    /\ ~pdf_exists
    /\ running = F_verify
    /\ results = [error |-> "PDF not found"]
\* C26: a call of process_pdf or verify_ocr_accuracy with start_page at or
\* beyond the document's page count is a reported error: what it returns is
\* not the empty result (zero counters, no page entry).
C26_OutOfRangeReported ==
    (/\ pdf_exists
     /\ start_page >= total_pages
     /\ loop_state = "finished")
        => results # results_init(running)
\* the sum of a sequence of numbers
RECURSIVE Sum(_)
Sum(ns) == IF ns = <<>> THEN 0 ELSE ns[1] + Sum(Tail(ns))

\* the page numbers of the requested range
RequestedRange ==
    {n \in start_page..(start_page + num_pages - 1) : n < total_pages}

\* the entries of 'pages' have different keys, each the key of a page of the
\* requested range
EntriesWithinRange ==
    /\ \A i, j \in 1..Len(results.pages) :
          results.pages[i].key = results.pages[j].key => i = j
    /\ \A i \in 1..Len(results.pages) :
          \E n \in RequestedRange : results.pages[i].key = page_key(n)

\* C29: in process_pdf of extract_scriptures_ocr on an existing document,
\* after every iteration of the page loop and at its end, whatever pages
\* failed: pages_processed is the number of entries of 'pages',
\* total_hebrew the sum of the lengths of their hebrew_segments,
\* total_greek the sum of the lengths of their greek_segments, and every
\* entry is for a page index in
\* [start_page, min(start_page + num_pages, total_pages)).
C29_AggregatesAgree ==
    (running = F_scriptures /\ loop_state \in {"looping", "finished"}) =>
        /\ results.pages_processed = Len(results.pages)
        /\ results.total_hebrew
             = Sum([i \in 1..Len(results.pages) |->
                       Len(results.pages[i].hebrew_segments)])
        /\ results.total_greek
             = Sum([i \in 1..Len(results.pages) |->
                       Len(results.pages[i].greek_segments)])
        /\ EntriesWithinRange

\* C29 witness: from start_page 1, the second page failed to render and the
\* third holds a Greek and a Hebrew word
C29_Witness ==
    /\ running = F_scriptures
    /\ loop_state = "finished"
    /\ start_page = 1
    /\ pages_done = <<RenderFails, Page(P_greek_hebrew)>>
    /\ Len(results.pages) = 1
    /\ results.pages[1].key = page_key(2)
    /\ results.total_greek = 1
    /\ results.total_hebrew = 1
----------------------------------------------------------------------------
(* Properties of the report of verify_ocr_accuracy, under SpecReport. *)

\* the references held by a list of match or miss entries
VersesOf(entries) == [i \in 1..Len(entries) |-> entries[i].verse]

\* how many times a reference occurs in a list of references
Occurrences(ref, refs) == Cardinality({i \in 1..Len(refs) : refs[i] = ref})

\* verses_checked and accuracy_scores have the length min(20, size of the
\* corpus); every checked verse is in exactly one of matches and misses,
\* in matches exactly when it was found with a similarity above 0.3; and
\* verified_verses_found is the length of matches
VerseListsConsistent ==
    LET checked == report.verses_checked
        scores == report.accuracy_scores
        matched == VersesOf(report.matches)
        missed == VersesOf(report.misses)
    IN  /\ Len(checked) = Len(scores)
        /\ Len(checked) = IF Len(verified_data) < 20 THEN Len(verified_data)
                          ELSE 20
        /\ \A i \in 1..Len(checked) :
              /\ checked[i] = verified_data[i].verse
              /\ Occurrences(checked[i], matched)
                   + Occurrences(checked[i], missed) = 1
              /\ Occurrences(checked[i], matched) = 1
                   <=> (/\ find_verse_in_ocr(ocr_text, verified_data[i].text,
                                             script_pattern).found
                        /\ FloatGT(scores[i], Float(3, 10)))
        /\ Len(matched) + Len(missed) = Len(checked)
        /\ report.verified_verses_found = Len(matched)

\* the mean of the scores, 0.0 for none
MeanOfScores ==
    IF report.accuracy_scores = <<>> THEN Float(0, 1)
    ELSE LET total == FloatSum(report.accuracy_scores)
         IN  Float(total.num, total.den * Len(report.accuracy_scores))

\* a and b differ by at most 0.005: 200 * |a - b| <= 1
WithinHalfCent(a, b) ==
    LET d == 200 * (a.num * b.den - b.num * a.den)
    IN  d <= a.den * b.den /\ -d <= a.den * b.den

\* x is a whole number of hundredths
TwoPlaces(x) == (100 * x.num) % x.den = 0

\* C30 as stated: in every report returned by verify_ocr_accuracy for an
\* existing document the verse lists are consistent and average_accuracy is
\* the mean of accuracy_scores (0.0 when no verse was checked), within
\* [0, 1].
C30_Original ==
    verse_loop = "returned" =>
        /\ VerseListsConsistent
        /\ SameFloat(report.average_accuracy, MeanOfScores)
        /\ InUnitInterval(report.average_accuracy)

\* C30, amended: the verse lists are consistent, and average_accuracy is
\* the mean of accuracy_scores rounded to two decimal places (0.0 when no
\* verse was checked): a whole number of hundredths in [0, 1] at most 0.005
\* from the mean.
C30_ReportConsistent ==
    verse_loop = "returned" =>
        /\ VerseListsConsistent
        /\ TwoPlaces(report.average_accuracy)
        /\ WithinHalfCent(report.average_accuracy, MeanOfScores)
        /\ InUnitInterval(report.average_accuracy)

\* C30 witness: a report over a corpus of more than 20 verses, with matches
\* and misses, whose average is not the mean itself
C30_Witness ==
    /\ verse_loop = "returned"
    /\ Len(verified_data) = 21
    /\ Len(report.verses_checked) = 20
    /\ report.matches # <<>>
    /\ report.misses # <<>>
    /\ ~SameFloat(report.average_accuracy, MeanOfScores)
----------------------------------------------------------------------------
(* Properties of test_ocr_configs, under SpecConfigs. *)

\* the first position of config_results whose count is the largest
FirstLargest(key) ==
    CHOOSE k \in 1..Len(config_results) :
        /\ \A j \in 1..Len(config_results) :
              config_results[j][key] <= config_results[k][key]
        /\ \A j \in 1..(k - 1) :
              config_results[j][key] < config_results[k][key]

\* C24: test_ocr_configs selects as best for Hebrew the configuration with
\* the largest hebrew_count and as best for Greek the one with the largest
\* greek_count; when several configurations have the largest count, the one
\* listed first among the candidates is selected.
C24_FirstLargestSelected ==
    configs_state = "selected" =>
        /\ \A k \in 1..Len(configs) : config_results[k].name = configs[k].name
        /\ best_hebrew = config_results[FirstLargest("hebrew_count")]
        /\ best_greek = config_results[FirstLargest("greek_count")]

\* C24 witness: the second and the fourth configuration both found the most
\* Hebrew, the third and the last the most Greek; the second and the third
\* are selected
C24_Witness ==
    /\ configs_state = "selected"
    /\ config_results[1].hebrew_count = 0
    /\ config_results[2].hebrew_count = 2
    /\ config_results[4].hebrew_count = 2
    /\ best_hebrew.name = "high_contrast"
    /\ config_results[1].greek_count = 0
    /\ config_results[2].greek_count = 0
    /\ config_results[3].greek_count = 1
    /\ config_results[6].greek_count = 1
    /\ best_greek.name = "threshold"
----------------------------------------------------------------------------
(* Properties of preprocess_image, under SpecPreprocess. *)

\* the modes of one band, and what each step of the chain does to an image
SingleChannelModes == {"1", "L", "P", "I", "F"}
Operation(operation, argument) == [op |-> operation, arg |-> argument]
GrayscaleStep == <<Operation("convert", 0)>>
ContrastStep == <<Operation("Contrast.enhance", config.enhance_contrast)>>
SharpenStep == <<Operation("filter SHARPEN", 0)>>
DenoiseStep == <<Operation("filter MedianFilter", 3)>>
BinarizeStep == <<Operation("point", 128), Operation("convert", 0)>>

\* a step if it is selected, nothing if not
StepIf(selected, step) == IF selected THEN step ELSE <<>>

\* the selected steps of the chain, in its order
SelectedSteps(grayscale) ==
    StepIf(grayscale, GrayscaleStep)
    \o StepIf(config.enhance_contrast # 10, ContrastStep)
    \o StepIf(config.sharpen, SharpenStep)
    \o StepIf(config.denoise, DenoiseStep)
    \o StepIf(config.threshold, BinarizeStep)

PreprocessReturned == img_processed # NoImage

\* C25 as stated: the steps preprocess_image applies are exactly the
\* selected ones of grayscale, contrast, sharpen, denoise, binarize, in that
\* order, grayscale being selected iff the image is not already
\* single-channel; the result is a single-channel image.
C25_Original ==
    PreprocessReturned =>
        /\ img_processed.steps
             = SelectedSteps(img.mode \notin SingleChannelModes)
        /\ img_processed.mode \in SingleChannelModes

\* C25, amended: the steps preprocess_image applies are exactly the selected
\* ones of grayscale, contrast, sharpen, denoise, binarize, in that order:
\* grayscale iff the mode of the image is not 'L', contrast iff the factor
\* is not 1.0, sharpen, denoise and binarize iff their flag is set; a step
\* that is not selected applies nothing, and the result is an image of mode
\* 'L'.
C25_SelectedStepsInOrder ==
    PreprocessReturned =>
        /\ img_processed.steps = SelectedSteps(img.mode # "L")
        /\ img_processed.mode = "L"

\* C25 witness: a bilevel image, with contrast and sharpening off, is
\* converted, denoised and binarized
C25_Witness ==
    /\ PreprocessReturned
    /\ img.mode = "1"
    /\ config.enhance_contrast = 10
    /\ ~config.sharpen
    /\ img_processed.steps
         = GrayscaleStep \o DenoiseStep \o BinarizeStep
    /\ img_processed.mode = "L"

====
